---- MODULE Spec2Model ----
(***************************************************************************)
(* A model of the generic hash set of lib/hashset.c (separate chaining,   *)
(* cached hashes, growth by load factor, mutation-counting iterator).     *)
(*                                                                         *)
(* A bucket chain is the sequence of nodes reached from the bucket head   *)
(* through the next links, head first.  A node that hs_clear has freed    *)
(* but left linked is kept in its chain with live = FALSE: its memory is  *)
(* indeterminate, so it holds either its old contents or clobbered ones.  *)
(***************************************************************************)
EXTENDS Integers, Sequences, FiniteSets, TLC

\* ------------------------------------------------------------------ bounds
MaxElem == 4
MaxMut == 4
MaxCapacity == 16
HashBits == 8
MaxLen == 4
MaxDaLen == 3
MaxDaCap == 10

\* ------------------------------------------------------- program constants
LoadFactorNum == 3
LoadFactorDen == 4
DefaultCapacity == 4
MinCapacity == 4
IntBits == 32
LongBits == 64
LimbBits == 30
ClusterMul == 4
Garbage == -1
NULL == 0

Elems == 1..MaxElem
NoSet == [null |-> TRUE]
NoIter == [none |-> TRUE]
NoNode == [b |-> -1, p |-> 0]

Range(seq) == {seq[i] : i \in 1..Len(seq)}

RECURSIVE Pow2(_)
Pow2(s) == IF s = 0 THEN 1 ELSE 2 * Pow2(s - 1)

\* A size_t argument is kept as two limbs of LimbBits bits, the value being
\* hi * 2^30 + lo, so that requests beyond 2^31 can be written.
Limb == Pow2(LimbBits)
U64(hi, lo) == [hi |-> hi, lo |-> lo]
\* A size_t result of 2^31 - 1 or more reads as Huge: every such value is
\* larger than any bucket array the model can allocate.
Huge == (Limb - 1) * 2 + 1
Sat(n) == IF n.hi = 0 THEN n.lo ELSE IF n.hi = 1 THEN Limb + n.lo ELSE Huge
U64Dec(n) == IF n.lo > 0 THEN U64(n.hi, n.lo - 1) ELSE U64(n.hi - 1, Limb - 1)

RECURSIVE BitLen(_)
BitLen(x) == IF x = 0 THEN 0 ELSE 1 + BitLen(x \div 2)
\* __builtin_clzl on a 64-bit long
clzl(n) == LongBits - (IF n.hi = 0 THEN BitLen(n.lo) ELSE LimbBits + BitLen(n.hi))

\* a hash is kept to its low HashBits bits
HashSpace == Pow2(HashBits)
ClobHashes == {0, HashSpace - 1}

\* 1 << s on a 32-bit int.  For s >= 31 the shift is undefined: the build
\* either masks the count to five bits and sign-extends the int ("wrap") or
\* shifts in a 64-bit register ("wide"); a result >= 2^31 reads as Huge.
ShlInt(s, ub) ==
    IF s < IntBits - 1 THEN Pow2(s)
    ELSE IF ub = "wrap"
         THEN (IF s % IntBits = IntBits - 1 THEN Huge ELSE Pow2(s % IntBits))
         ELSE Huge

__npo2(n, ub) == IF Sat(n) = 1 THEN 1 ELSE ShlInt(LongBits - clzl(U64Dec(n)), ub)

RECURSIVE BitAnd(_, _)
BitAnd(a, b) ==
    IF a = 0 \/ b = 0 THEN 0
    ELSE 2 * BitAnd(a \div 2, b \div 2) + (IF a % 2 = 1 /\ b % 2 = 1 THEN 1 ELSE 0)

\* ------------------------------------------------------------ the policy
cmp(a, b) == a - b

\* The hasher of the policy, a function of the key and of the two seeds.
\* seed_1 decides whether the keys spread over the buckets (multiplier 1, the
\* bucket of a key is then the one the multiplicative hasher of the tests
\* gives, whose multiplier 2654435761 is 1 modulo 16) or cluster (multiplier
\* 4); seed_0 decides whether two keys share one hash.
hasher(k, seed_0, seed_1) ==
    ((k \div (1 + seed_0)) * (ClusterMul - (ClusterMul - 1) * seed_1)) % HashSpace

__hs_hash(h, k) == hasher(k, h.seed_0, h.seed_1)

__hs_index(hash, capacity) == BitAnd(hash, capacity - 1)

__hs_new_node(k, hash) == [key |-> k, hash |-> hash, live |-> TRUE]

\* ----------------------------------------------------------- the results
Ret(h, r) == [hs |-> h, ret |-> r, fault |-> FALSE]
Fault(h) == [hs |-> h, ret |-> FALSE, fault |-> TRUE]

\* ---------------------------------------------------------- construction
\* a constructor that takes an element size of 0
NewTakesSizeZero(element_size, policy, capacity, seeds, al, ub) ==
    IF ~policy THEN Ret(NoSet, FALSE)
    ELSE IF ~al.hs THEN Ret(NoSet, FALSE)
    ELSE LET cap == IF Sat(capacity) < MinCapacity THEN MinCapacity ELSE __npo2(capacity, ub)
         IN IF ~al.buckets \/ cap > MaxCapacity THEN Ret(NoSet, FALSE)
            ELSE Ret([count |-> 0,
                      capacity |-> cap,
                      element_size |-> element_size,
                      buckets |-> [i \in 0..(cap - 1) |-> <<>>],
                      seed_0 |-> seeds[1],
                      seed_1 |-> seeds[2],
                      _mut_count |-> 0,
                      _collisions |-> 0], TRUE)

hs_new_with_capacity(element_size, policy, capacity, seeds, al, ub) ==
    IF element_size = 0 \/ ~policy THEN Ret(NoSet, FALSE)
    ELSE IF ~al.hs THEN Ret(NoSet, FALSE)
    ELSE LET cap == IF Sat(capacity) < MinCapacity THEN MinCapacity ELSE __npo2(capacity, ub)
         IN IF ~al.buckets \/ cap > MaxCapacity THEN Ret(NoSet, FALSE)
            ELSE Ret([count |-> 0,
                      capacity |-> cap,
                      element_size |-> element_size,
                      buckets |-> [i \in 0..(cap - 1) |-> <<>>],
                      seed_0 |-> seeds[1],
                      seed_1 |-> seeds[2],
                      _mut_count |-> 0,
                      _collisions |-> 0], TRUE)

hs_new(element_size, policy, seeds, al, ub) ==
    hs_new_with_capacity(element_size, policy, U64(0, DefaultCapacity), seeds, al, ub)

\* the blocks hs_new_with_capacity has allocated and not freed when it returns
Allocated(element_size, policy, al) ==
    IF element_size = 0 \/ ~policy THEN {}
    ELSE IF ~al.hs THEN {}
    ELSE IF ~al.buckets THEN {"hs"} \ {"hs"}
    ELSE {"hs", "buckets"}

RECURSIVE FindFrom(_, _, _, _)
FindFrom(chain, i, k, hash) ==
    IF i > Len(chain) THEN 0
    ELSE IF chain[i].hash = hash /\ cmp(chain[i].key, k) = 0 THEN i
    ELSE FindFrom(chain, i + 1, k, hash)

\* the position in the chain of bucket index of the node whose link
\* __hs_find_target_ptr returns, 0 for NULL
__hs_find_target_ptr(h, k, hash, index) == FindFrom(h.buckets[index], 1, k, hash)

\* the walk dereferences every node up to the one it returns
FindTouchesFreed(h, k, hash, index) ==
    LET chain == h.buckets[index]
        pos == __hs_find_target_ptr(h, k, hash, index)
        upto == IF pos = 0 THEN Len(chain) ELSE pos
    IN \E i \in 1..upto : ~chain[i].live

\* comparing against a clobbered key pointer dereferences a wild address
FindWild(h, k, hash, index) ==
    LET chain == h.buckets[index]
        pos == __hs_find_target_ptr(h, k, hash, index)
        upto == IF pos = 0 THEN Len(chain) ELSE pos
    IN \E i \in 1..upto : chain[i].key = Garbage /\ chain[i].hash = hash

FindFaults(h, k, hash, index, uaf) ==
    \/ FindWild(h, k, hash, index)
    \/ uaf = "fault" /\ FindTouchesFreed(h, k, hash, index)

__hs_contains(h, k, hash, index) == __hs_find_target_ptr(h, k, hash, index) # 0

\* a lookup that counts as a mutation
ContainsCountsMutation(h, k, uaf) ==
    IF h = NoSet \/ k = NULL THEN Ret(h, FALSE)
    ELSE LET hash == __hs_hash(h, k)
             index == __hs_index(hash, h.capacity)
         IN IF FindFaults(h, k, hash, index, uaf) THEN Fault(h)
            ELSE Ret([h EXCEPT !._mut_count = @ + 1],
                     __hs_find_target_ptr(h, k, hash, index) # 0)

hs_contains(h, k, uaf) ==
    IF h = NoSet \/ k = NULL THEN Ret(h, FALSE)
    ELSE LET hash == __hs_hash(h, k)
             index == __hs_index(hash, h.capacity)
         IN IF FindFaults(h, k, hash, index, uaf) THEN Fault(h)
            ELSE Ret(h, __hs_find_target_ptr(h, k, hash, index) # 0)

\* ---------------------------------------------------------------- resize
RECURSIVE Flatten(_, _, _)
Flatten(buckets, i, capacity) ==
    IF i >= capacity THEN <<>> ELSE buckets[i] \o Flatten(buckets, i + 1, capacity)

RECURSIVE Relink(_, _, _, _)
Relink(nodes, j, new_buckets, new_capacity) ==
    IF j > Len(nodes) THEN new_buckets
    ELSE LET new_index == __hs_index(nodes[j].hash, new_capacity)
         IN Relink(nodes, j + 1,
                   [new_buckets EXCEPT ![new_index] = <<nodes[j]>> \o @],
                   new_capacity)

AnyFreed(h) == \E i \in 0..(h.capacity - 1) : \E j \in 1..Len(h.buckets[i]) : ~h.buckets[i][j].live

__hs_resize(h, new_capacity, al, uaf) ==
    IF new_capacity <= h.capacity THEN Ret(h, FALSE)
    ELSE IF ~al.buckets \/ new_capacity > MaxCapacity THEN Ret(h, FALSE)
    ELSE IF uaf = "fault" /\ AnyFreed(h) THEN Fault(h)
    ELSE Ret([h EXCEPT !.buckets = Relink(Flatten(h.buckets, 0, h.capacity), 1,
                                          [i \in 0..(new_capacity - 1) |-> <<>>],
                                          new_capacity),
                       !.capacity = new_capacity], TRUE)

\* a resize that shrinks the table when it is asked for less than it has
ResizeShrinks(h, new_capacity, al, uaf, ub) ==
    IF h = NoSet THEN Ret(h, FALSE)
    ELSE LET h1 == [h EXCEPT !._mut_count = @ + 1]
             less == IF Sat(new_capacity) < MinCapacity THEN MinCapacity
                     ELSE __npo2(new_capacity, ub)
         IN IF h1.capacity > Sat(new_capacity)
            THEN Ret([h1 EXCEPT !.buckets = Relink(Flatten(h1.buckets, 0, h1.capacity), 1,
                                                   [i \in 0..(less - 1) |-> <<>>], less),
                                !.capacity = less], TRUE)
            ELSE __hs_resize(h1, __npo2(new_capacity, ub), al, uaf)

hs_resize(h, new_capacity, al, uaf, ub) ==
    IF h = NoSet THEN Ret(h, FALSE)
    ELSE LET h1 == [h EXCEPT !._mut_count = @ + 1]
         IN IF h1.capacity > Sat(new_capacity) THEN Ret(h1, TRUE)
            ELSE __hs_resize(h1, __npo2(new_capacity, ub), al, uaf)

\* ---------------------------------------------------------------- insert
hs_insert(h, k, al, uaf) ==
    IF h = NoSet \/ k = NULL THEN Ret(h, FALSE)
    ELSE LET h1 == [h EXCEPT !._mut_count = @ + 1]
             hash == __hs_hash(h1, k)
             index == __hs_index(hash, h1.capacity)
         IN IF FindFaults(h1, k, hash, index, uaf) THEN Fault(h1)
            ELSE IF __hs_contains(h1, k, hash, index) THEN Ret(h1, FALSE)
            ELSE IF ~al.kcopy THEN Ret(h1, FALSE)
            ELSE IF ~al.node THEN Ret(h1, FALSE)
            ELSE LET h2 == [h1 EXCEPT
                              !._collisions = IF h1.buckets[index] # <<>> THEN @ + 1 ELSE @,
                              !.buckets[index] = <<__hs_new_node(k, hash)>> \o @,
                              !.count = @ + 1]
                 IN IF LoadFactorDen * h2.count > LoadFactorNum * h2.capacity
                    THEN LET r == __hs_resize(h2, h2.capacity * 2, al, uaf)
                         IN IF r.fault THEN r ELSE Ret(r.hs, TRUE)
                    ELSE Ret(h2, TRUE)

RemoveAt(chain, pos) == SubSeq(chain, 1, pos - 1) \o SubSeq(chain, pos + 1, Len(chain))

\* a remove that counts the mutation only when it has found the key
RemoveCountsOnSuccess(h, k, uaf) ==
    IF h = NoSet \/ k = NULL THEN Ret(h, FALSE)
    ELSE LET hash == __hs_hash(h, k)
             index == __hs_index(hash, h.capacity)
             target == __hs_find_target_ptr(h, k, hash, index)
         IN IF FindFaults(h, k, hash, index, uaf) THEN Fault(h)
            ELSE IF target = 0 THEN Ret(h, FALSE)
            ELSE Ret([h EXCEPT !.buckets[index] = RemoveAt(@, target),
                               !.count = @ - 1,
                               !._mut_count = @ + 1], TRUE)

hs_remove(h, k, uaf) ==
    IF h = NoSet \/ k = NULL THEN Ret(h, FALSE)
    ELSE LET h1 == [h EXCEPT !._mut_count = @ + 1]
             hash == __hs_hash(h1, k)
             index == __hs_index(hash, h1.capacity)
             target == __hs_find_target_ptr(h1, k, hash, index)
         IN IF FindFaults(h1, k, hash, index, uaf) THEN Fault(h1)
            ELSE IF target = 0 THEN Ret(h1, FALSE)
            ELSE Ret([h1 EXCEPT !.buckets[index] = RemoveAt(@, target),
                                !.count = @ - 1], TRUE)

\* ---------------------------------------------------------------- retain
\* a predicate is the set of keys it accepts; NoPred is the NULL predicate;
\* onGarbage is what it answers on the indeterminate contents of a freed key
NoPred == {NULL}

RECURSIVE RetainChain(_, _, _)
RetainChain(chain, predicate, onGarbage) ==
    IF chain = <<>> THEN <<>>
    ELSE LET curr == Head(chain)
             keep == IF curr.key = Garbage THEN onGarbage ELSE curr.key \in predicate
         IN IF keep THEN <<curr>> \o RetainChain(Tail(chain), predicate, onGarbage)
            ELSE RetainChain(Tail(chain), predicate, onGarbage)

RECURSIVE NodeCount(_, _, _)
NodeCount(buckets, i, capacity) ==
    IF i >= capacity THEN 0 ELSE Len(buckets[i]) + NodeCount(buckets, i + 1, capacity)

hs_retain(h, predicate, onGarbage, uaf) ==
    IF h = NoSet \/ predicate = NoPred THEN Ret(h, FALSE)
    ELSE LET h1 == [h EXCEPT !._mut_count = @ + 1]
             kept == [i \in 0..(h1.capacity - 1) |-> RetainChain(h1.buckets[i], predicate, onGarbage)]
             removed == NodeCount(h1.buckets, 0, h1.capacity) - NodeCount(kept, 0, h1.capacity)
         IN IF uaf = "fault" /\ AnyFreed(h1) THEN Fault(h1)
            ELSE Ret([h1 EXCEPT !.buckets = kept, !.count = @ - removed], TRUE)

\* ----------------------------------------------------------------- clear
\* hs_clear hands every key to the deallocator and frees every node, and
\* leaves the bucket heads, the links and count as they were.  The freed
\* memory keeps its contents (mode "stale") or the allocator overwrites the
\* key and hash words (mode "clob", with hash word g).
FreedNode(n, mode, g) ==
    IF mode = "stale" THEN [n EXCEPT !.live = FALSE]
    ELSE [key |-> Garbage, hash |-> g, live |-> FALSE]

hs_clear(h, mode, g, uaf) ==
    IF h = NoSet THEN Ret(h, FALSE)
    ELSE LET h1 == [h EXCEPT !._mut_count = @ + 1]
         IN IF uaf = "fault" /\ AnyFreed(h1) THEN Fault(h1)
            ELSE Ret([h1 EXCEPT !.buckets =
                        [i \in 0..(h1.capacity - 1) |->
                            IF h1.buckets[i] = <<>> THEN <<>>
                            ELSE [j \in 1..Len(h1.buckets[i]) |->
                                     FreedNode(h1.buckets[i][j], mode, g)]]],
                     TRUE)

hs_count(h) == h.count
hs_is_empty(h) == h.count = 0

\* -------------------------------------------------------------- iterator
hs_iterator(h) == [index |-> 0, node |-> NoNode, mutations |-> h._mut_count]

NodeAt(h, node) == h.buckets[node.b][node.p]

RECURSIVE ScanFrom(_, _)
\* the while loop of hs_iter_next: the first non-empty bucket at or after i
ScanFrom(h, i) ==
    IF i >= h.capacity THEN h.capacity
    ELSE IF h.buckets[i] # <<>> THEN i
    ELSE ScanFrom(h, i + 1)

hs_iter_next(i, h, uaf) ==
    IF i = NoIter \/ h = NoSet THEN [it |-> i, ret |-> FALSE, fault |-> FALSE]
    ELSE IF i.mutations # h._mut_count THEN [it |-> i, ret |-> FALSE, fault |-> FALSE]
    ELSE IF i.node # NoNode /\ uaf = "fault" /\ ~NodeAt(h, i.node).live
         THEN [it |-> i, ret |-> FALSE, fault |-> TRUE]
    ELSE IF i.node # NoNode /\ i.node.p < Len(h.buckets[i.node.b])
         THEN [it |-> [i EXCEPT !.node = [b |-> i.node.b, p |-> i.node.p + 1]],
               ret |-> TRUE, fault |-> FALSE]
    ELSE LET b == ScanFrom(h, i.index)
         IN IF b < h.capacity
            THEN [it |-> [i EXCEPT !.index = b + 1, !.node = [b |-> b, p |-> 1]],
                  ret |-> TRUE, fault |-> FALSE]
            ELSE [it |-> [i EXCEPT !.index = h.capacity, !.node = NoNode],
                  ret |-> FALSE, fault |-> FALSE]

\* the key returned, NULL for none
hs_iter_get(i, h, uaf) ==
    IF i = NoIter \/ i.node = NoNode THEN [ret |-> NULL, fault |-> FALSE]
    ELSE IF i.mutations # h._mut_count THEN [ret |-> NULL, fault |-> FALSE]
    ELSE IF uaf = "fault" /\ ~NodeAt(h, i.node).live THEN [ret |-> NULL, fault |-> TRUE]
    ELSE [ret |-> NodeAt(h, i.node).key, fault |-> FALSE]

\* ------------------------------------------------------------ the inputs
\* capacities asked for: 3, 4, 5, and 2^30 + 1, 2^31 + 1, 2^32 + 1
SmallRequests == {U64(0, 3), U64(0, 4), U64(0, 5)}
HugeRequests == {U64(1, 1), U64(2, 1), U64(4, 1)}
\* the seeds __random_u64 draws: a clustering hash with shared hashes, and a
\* spreading one
SeedPairs == {<<1, 0>>, <<0, 1>>}
\* element size and completeness of the policy
NewArgs == {<<4, TRUE>>, <<0, TRUE>>, <<4, FALSE>>}
Al(f) == [hs |-> f # "hs", buckets |-> f # "buckets", kcopy |-> f # "kcopy", node |-> f # "node"]
Predicates == (SUBSET Elems) \cup {NoPred}

\* the shift of __npo2 is undefined from 31 on
ShiftUB(n) == IF Sat(n) >= MinCapacity /\ LongBits - clzl(U64Dec(n)) >= IntBits - 1
              THEN {"wrap", "wide"} ELSE {"wrap"}
\* an access to freed memory either reads what the memory holds or faults
UAF(h) == IF h # NoSet /\ AnyFreed(h) THEN {"read", "fault"} ELSE {"read"}
\* what freed memory holds: its old contents, or a clobbered key and hash
FreeModes == {<<"stale", 0>>} \cup {<<"clob", g>> : g \in ClobHashes}
HasGarbage(h) ==
    \E i \in 0..(h.capacity - 1) : \E j \in 1..Len(h.buckets[i]) : h.buckets[i][j].key = Garbage

\* ------------------------------------------------------------------ free
\* hs_free clears the set and frees the bucket array and the set: the handle
\* is gone
hs_free(h, mode, g, uaf) ==
    IF h = NoSet THEN Ret(NoSet, FALSE)
    ELSE LET r == hs_clear(h, mode, g, uaf)
         IN IF r.fault THEN r ELSE Ret(NoSet, TRUE)

\* ------------------------------------------------------------ from array
\* the loop of hs_new_from_array from element i on: the first hs_insert that
\* returns false frees the set and ends the call with NULL
RECURSIVE InsertArray(_, _, _, _)
InsertArray(h, arr, i, al) ==
    IF i > Len(arr) THEN Ret(h, TRUE)
    ELSE LET r == hs_insert(h, arr[i], al, "read")
         IN IF r.fault THEN r
            ELSE IF ~r.ret THEN Ret(hs_free(r.hs, "stale", 0, "read").hs, FALSE)
            ELSE InsertArray(r.hs, arr, i + 1, al)

\* alnew are the allocations of the constructor, alins those of the inserts
hs_new_from_array(element_size, policy, arr, seeds, alnew, alins, ub) ==
    LET made == hs_new_with_capacity(element_size, policy, U64(0, Len(arr)), seeds, alnew, ub)
    IN IF made.hs = NoSet THEN Ret(NoSet, FALSE)
       ELSE InsertArray(made.hs, arr, 1, alins)

\* --------------------------------------------------------------- copiers
\* the nodes a walk over all buckets visits, bucket by bucket, head first
Walk(h) == Flatten(h.buckets, 0, h.capacity)

\* A loop over the nodes reads curr->key and curr->next and hands the key to
\* the hasher: a freed node is a freed access, a clobbered key pointer a wild
\* address
NodeFaults(n, uaf) == n.key = Garbage \/ (uaf = "fault" /\ ~n.live)

\* The loop that hs_insert's into dst the key of every node of nodes that is
\* selected: all of them, those hs_contains finds in other ("in") or those it
\* does not ("out").  fk is the key for whose copy malloc fails (NULL: none).
\* A strict loop frees dst and gives NULL up when hs_insert returns false; the
\* other loops ignore what hs_insert returns.
RECURSIVE InsertEach(_, _, _, _, _, _, _, _)
InsertEach(dst, nodes, j, sel, other, fk, strict, uaf) ==
    IF j > Len(nodes) THEN Ret(dst, TRUE)
    ELSE LET curr == nodes[j]
             c == hs_contains(other, curr.key, uaf)
             take == IF sel = "all" THEN TRUE ELSE IF sel = "in" THEN c.ret ELSE ~c.ret
             r == hs_insert(dst, curr.key,
                            IF curr.key = fk THEN Al("kcopy") ELSE Al("none"), "read")
         IN IF NodeFaults(curr, uaf) THEN Fault(NoSet)
            ELSE IF sel # "all" /\ c.fault THEN Fault(NoSet)
            ELSE IF ~take THEN InsertEach(dst, nodes, j + 1, sel, other, fk, strict, uaf)
            ELSE IF strict /\ ~r.ret THEN Ret(NoSet, FALSE)
            ELSE InsertEach(r.hs, nodes, j + 1, sel, other, fk, strict, uaf)

\* the copies are made by hs_new and hs_new_with_capacity, which draw new
\* seeds
hs_copy_metadata(h, seeds, al) ==
    IF h = NoSet THEN Ret(NoSet, FALSE)
    ELSE hs_new(h.element_size, TRUE, seeds, al, "wrap")

hs_copy_metadata_with_capacity(h, capacity, seeds, al) ==
    IF h = NoSet THEN Ret(NoSet, FALSE)
    ELSE hs_new_with_capacity(h.element_size, TRUE, capacity, seeds, al, "wrap")

hs_copy(h, seeds, al, fk, uaf) ==
    LET copy == hs_copy_metadata(h, seeds, al)
    IN IF copy.hs = NoSet THEN Ret(NoSet, FALSE)
       ELSE InsertEach(copy.hs, Walk(h), 1, "all", NoSet, fk, TRUE, uaf)

hs_copy_with_capacity(h, capacity, seeds, al, fk, uaf) ==
    LET copy == hs_copy_metadata_with_capacity(h, capacity, seeds, al)
    IN IF copy.hs = NoSet THEN Ret(NoSet, FALSE)
       ELSE InsertEach(copy.hs, Walk(h), 1, "all", NoSet, fk, TRUE, uaf)

\* (size_t)((double)curr_count / load_factor)
__best_capacity(curr_count) == U64(0, (curr_count * LoadFactorDen) \div LoadFactorNum)

\* ----------------------------------------------------------- comparators
Answer(r) == [ret |-> r, fault |-> FALSE]
Crash == [ret |-> FALSE, fault |-> TRUE]

\* the loop that returns false at the first node of nodes whose key
\* hs_contains does not find in b (want = TRUE) or does find in b (want =
\* FALSE), and true after the last node
RECURSIVE EachContained(_, _, _, _, _)
EachContained(nodes, j, b, want, uaf) ==
    IF j > Len(nodes) THEN Answer(TRUE)
    ELSE LET c == hs_contains(b, nodes[j].key, uaf)
         IN IF NodeFaults(nodes[j], uaf) \/ c.fault THEN Crash
            ELSE IF c.ret # want THEN Answer(FALSE)
            ELSE EachContained(nodes, j + 1, b, want, uaf)

\* same: the two arguments are the same pointer
hs_are_eq(a, b, same, uaf) ==
    IF same THEN Answer(TRUE)
    ELSE IF a = NoSet \/ b = NoSet THEN Answer(FALSE)
    ELSE IF a.count # b.count THEN Answer(FALSE)
    ELSE IF a.element_size # b.element_size THEN Answer(FALSE)
    ELSE EachContained(Walk(a), 1, b, TRUE, uaf)

hs_are_disjoint(a, b, same, uaf) ==
    IF same THEN Answer(~(a # NoSet /\ a.count > 0))
    ELSE IF a = NoSet \/ b = NoSet THEN Answer(TRUE)
    ELSE IF a.element_size # b.element_size THEN Answer(TRUE)
    ELSE LET smaller == IF a.count <= b.count THEN a ELSE b
             larger == IF a.count <= b.count THEN b ELSE a
         IN EachContained(Walk(smaller), 1, larger, FALSE, uaf)

\* with a NULL operand the answer is hs_is_empty(a), which reads a->count
\* without a NULL check
hs_is_subset(a, b, same, uaf) ==
    IF same THEN Answer(TRUE)
    ELSE IF a = NoSet THEN Crash
    ELSE IF b = NoSet THEN Answer(hs_is_empty(a))
    ELSE IF a.count > b.count THEN Answer(FALSE)
    ELSE EachContained(Walk(a), 1, b, TRUE, uaf)

hs_is_supset(a, b, same, uaf) == hs_is_subset(b, a, same, uaf)

\* ---------------------------------------------------- algebraic operations
\* a result that hs_copy* could not make
Made(r) == IF r.fault THEN r ELSE Ret(r.hs, r.hs # NoSet)

hs_union(a, b, seeds, al, fk, uaf) ==
    IF a = NoSet THEN Made(hs_copy(b, seeds, al, fk, uaf))
    ELSE IF b = NoSet THEN Made(hs_copy(a, seeds, al, fk, uaf))
    ELSE LET first == IF a.count >= b.count THEN a ELSE b
             second == IF a.count >= b.count THEN b ELSE a
             capacity == __best_capacity(a.count + b.count)
             union_ab == hs_copy_with_capacity(first, capacity, seeds, al, fk, uaf)
         IN IF union_ab.fault \/ union_ab.hs = NoSet THEN Made(union_ab)
            ELSE InsertEach(union_ab.hs, Walk(second), 1, "all", NoSet, fk, FALSE, uaf)

hs_intersection(a, b, seeds, al, fk, uaf) ==
    IF a = NoSet THEN Made(hs_copy_metadata(b, seeds, al))
    ELSE IF b = NoSet THEN Made(hs_copy_metadata(a, seeds, al))
    ELSE LET iterate_set == IF a.count <= b.count THEN a ELSE b
             check_set == IF a.count <= b.count THEN b ELSE a
             intersection_ab ==
                 hs_copy_metadata_with_capacity(a, U64(0, check_set.capacity), seeds, al)
         IN IF intersection_ab.hs = NoSet THEN Ret(NoSet, FALSE)
            ELSE InsertEach(intersection_ab.hs, Walk(iterate_set), 1, "in", check_set,
                            fk, FALSE, uaf)

hs_difference(a, b, seeds, al, fk, uaf) ==
    IF a = NoSet THEN Made(hs_copy_metadata(b, seeds, al))
    ELSE IF b = NoSet THEN Made(hs_copy(a, seeds, al, fk, uaf))
    ELSE LET difference_ab ==
                 hs_copy_metadata_with_capacity(a, U64(0, a.capacity), seeds, al)
         IN IF difference_ab.hs = NoSet THEN Ret(NoSet, FALSE)
            ELSE InsertEach(difference_ab.hs, Walk(a), 1, "out", b, fk, FALSE, uaf)

hs_sym_difference(a, b, seeds, al, fk, uaf) ==
    IF a = NoSet THEN Made(hs_copy(b, seeds, al, fk, uaf))
    ELSE IF b = NoSet THEN Made(hs_copy(a, seeds, al, fk, uaf))
    ELSE LET capacity == __best_capacity(a.count + b.count)
             sym_difference_ab == hs_copy_metadata_with_capacity(a, capacity, seeds, al)
             pass1 == InsertEach(sym_difference_ab.hs, Walk(a), 1, "out", b, fk, FALSE, uaf)
         IN IF sym_difference_ab.hs = NoSet THEN Ret(NoSet, FALSE)
            ELSE IF pass1.fault THEN pass1
            ELSE InsertEach(pass1.hs, Walk(b), 1, "out", a, fk, FALSE, uaf)

\* the loop of hs_filter; onGarbage is what the predicate answers on the
\* indeterminate contents of a freed key
RECURSIVE FilterEach(_, _, _, _, _, _, _)
FilterEach(dst, nodes, j, predicate, onGarbage, fk, uaf) ==
    IF j > Len(nodes) THEN Ret(dst, TRUE)
    ELSE LET curr == nodes[j]
             keep == IF curr.key = Garbage THEN onGarbage ELSE curr.key \in predicate
             r == hs_insert(dst, curr.key,
                            IF curr.key = fk THEN Al("kcopy") ELSE Al("none"), "read")
         IN IF uaf = "fault" /\ ~curr.live THEN Fault(NoSet)
            ELSE IF ~keep THEN FilterEach(dst, nodes, j + 1, predicate, onGarbage, fk, uaf)
            ELSE IF curr.key = Garbage THEN Fault(NoSet)
            ELSE FilterEach(r.hs, nodes, j + 1, predicate, onGarbage, fk, uaf)

hs_filter(h, predicate, onGarbage, seeds, al, fk, uaf) ==
    IF h = NoSet \/ predicate = NoPred THEN Ret(NoSet, FALSE)
    ELSE LET filtered_hs == hs_copy_metadata_with_capacity(h, U64(0, h.capacity), seeds, al)
         IN IF filtered_hs.hs = NoSet THEN Ret(NoSet, FALSE)
            ELSE FilterEach(filtered_hs.hs, Walk(h), 1, predicate, onGarbage, fk, uaf)

\* ------------------------------------------------------- the dynamic array
\* A size_t of darray.c is four limbs of 16 bits, the most significant first,
\* so that length - 1 and mid - 1 wrap as they do in 64 bits.
Word16 == 65536
SzOf(n) == <<0, 0, n \div Word16, n % Word16>>
SizeMax == <<Word16 - 1, Word16 - 1, Word16 - 1, Word16 - 1>>
SzIsSmall(a) == a[1] = 0 /\ a[2] = 0 /\ a[3] < Word16 \div 2
SzVal(a) == a[3] * Word16 + a[4]
SzAdd(a, b) ==
    LET s4 == a[4] + b[4]
        s3 == a[3] + b[3] + (s4 \div Word16)
        s2 == a[2] + b[2] + (s3 \div Word16)
        s1 == a[1] + b[1] + (s2 \div Word16)
    IN <<s1 % Word16, s2 % Word16, s3 % Word16, s4 % Word16>>
SzNeg(a) == SzAdd(<<Word16 - 1 - a[1], Word16 - 1 - a[2], Word16 - 1 - a[3], Word16 - 1 - a[4]>>, SzOf(1))
SzSub(a, b) == SzAdd(a, SzNeg(b))
SzHalf(a) ==
    <<a[1] \div 2,
      (a[2] \div 2) + (a[1] % 2) * (Word16 \div 2),
      (a[3] \div 2) + (a[2] % 2) * (Word16 \div 2),
      (a[4] \div 2) + (a[3] % 2) * (Word16 \div 2)>>
SzLess(a, b) ==
    \E i \in 1..4 : a[i] < b[i] /\ \A j \in 1..(i - 1) : a[j] = b[j]
SzLeq(a, b) == a = b \/ SzLess(a, b)

NoArray == [null |-> TRUE]
\* what a slot holds that no call has written
Junk == -1
GrowthFactor == 2
ShrinkNum == 1
ShrinkDen == 5

int_cmp(a, b) == a - b

DRet(d, r) == [da |-> d, ret |-> r]
DAl(f) == [da |-> f # "da", arr |-> f # "arr", elem |-> f # "elem"]

da_new_with_capacity(element_size, capacity, al) ==
    IF ~al.da THEN DRet(NoArray, FALSE)
    ELSE IF ~al.arr THEN DRet(NoArray, FALSE)
    ELSE DRet([arr |-> <<>>, length |-> 0, capacity |-> capacity,
               element_size |-> element_size], TRUE)

da_new(element_size, al) == da_new_with_capacity(element_size, 4, al)

da_truncate(d, new_length) ==
    IF d = NoArray THEN DRet(d, FALSE)
    ELSE IF new_length >= d.length THEN DRet(d, TRUE)
    ELSE DRet([d EXCEPT !.arr = SubSeq(@, 1, new_length), !.length = new_length], TRUE)

da_resize(d, capacity, al) ==
    IF d = NoArray THEN DRet(d, FALSE)
    ELSE IF d.capacity = capacity THEN DRet(d, TRUE)
    ELSE LET t == IF d.length > capacity THEN da_truncate(d, capacity) ELSE DRet(d, TRUE)
         IN IF ~t.ret THEN DRet(t.da, FALSE)
            ELSE IF ~al.arr /\ capacity > 0 THEN DRet(t.da, FALSE)
            ELSE DRet([t.da EXCEPT !.capacity = capacity], TRUE)

da_reserve(d, capacity, al) ==
    IF d = NoArray THEN DRet(d, FALSE)
    ELSE IF d.capacity >= capacity THEN DRet(d, TRUE)
    ELSE da_resize(d, capacity, al)

da_shrink(d, al) ==
    IF d = NoArray THEN DRet(d, FALSE)
    ELSE da_resize(d, d.length, al)

__da_upsize(d, al) ==
    IF d.length = d.capacity
    THEN LET new_cap == IF d.capacity # 0 THEN d.capacity * GrowthFactor ELSE 1
         IN da_reserve(d, new_cap, al)
    ELSE DRet(d, TRUE)

\* (size_t)((double)capacity * 0.2) is capacity \div 5
__da_downsize(d, al) ==
    IF d.length < (d.capacity * ShrinkNum) \div ShrinkDen THEN da_shrink(d, al).da ELSE d

RECURSIVE Junks(_)
Junks(n) == IF n <= 0 THEN <<>> ELSE <<Junk>> \o Junks(n - 1)

\* a set that takes every index
SetAnywhere(d, idx, e) ==
    IF d = NoArray \/ e = NULL THEN DRet(d, FALSE)
    ELSE IF idx >= d.length
         THEN DRet([d EXCEPT !.arr = @ \o Junks(idx - d.length) \o <<e>>,
                             !.length = idx + 1], TRUE)
         ELSE DRet([d EXCEPT !.arr[idx + 1] = e], TRUE)

da_set(d, idx, e) ==
    IF d = NoArray \/ idx >= d.capacity \/ e = NULL THEN DRet(d, FALSE)
    ELSE IF idx >= d.length
         THEN DRet([d EXCEPT !.arr = @ \o Junks(idx - d.length) \o <<e>>,
                             !.length = idx + 1], TRUE)
         ELSE DRet([d EXCEPT !.arr[idx + 1] = e], TRUE)

da_push(d, e, al) ==
    IF d = NoArray \/ e = NULL THEN DRet(d, FALSE)
    ELSE LET up == __da_upsize(d, al)
         IN IF ~up.ret THEN DRet(up.da, FALSE)
            ELSE DRet([up.da EXCEPT !.arr = Append(@, e), !.length = @ + 1], TRUE)

da_push_front(d, e, al) ==
    IF d = NoArray \/ e = NULL THEN DRet(d, FALSE)
    ELSE LET up == __da_upsize(d, al)
         IN IF ~up.ret THEN DRet(up.da, FALSE)
            ELSE DRet([up.da EXCEPT !.arr = <<e>> \o @, !.length = @ + 1], TRUE)

\* the pops return a copy of the element, NULL when there is none
da_pop(d, al) ==
    IF d = NoArray THEN DRet(d, NULL)
    ELSE IF d.length = 0 THEN DRet(d, NULL)
    ELSE IF ~al.elem THEN DRet(d, NULL)
    ELSE LET idx == d.length - 1
         IN DRet(__da_downsize([d EXCEPT !.arr = SubSeq(@, 1, idx), !.length = @ - 1], al),
                 d.arr[idx + 1])

da_pop_front(d, al) ==
    IF d = NoArray THEN DRet(d, NULL)
    ELSE IF d.length = 0 THEN DRet(d, NULL)
    ELSE IF ~al.elem THEN DRet(d, NULL)
    ELSE DRet(__da_downsize([d EXCEPT !.arr = Tail(@), !.length = @ - 1], al), d.arr[1])

\* the index of the first element from i on that compares equal to target;
\* whether a slot no call has written compares equal is junkEq
RECURSIVE FindIndex(_, _, _, _)
FindIndex(arr, i, target, junkEq) ==
    IF i >= Len(arr) THEN -1
    ELSE IF (arr[i + 1] = Junk /\ junkEq) \/ (arr[i + 1] # Junk /\ int_cmp(arr[i + 1], target) = 0)
         THEN i
         ELSE FindIndex(arr, i + 1, target, junkEq)

DropAt(arr, i) == SubSeq(arr, 1, i) \o SubSeq(arr, i + 2, Len(arr))

\* da_remove returns the index as a size_t, (size_t)-1 when it finds none
da_remove(d, target, junkEq, al) ==
    IF d = NoArray \/ target = NULL THEN DRet(d, SizeMax)
    ELSE LET i == FindIndex(d.arr, 0, target, junkEq)
         IN IF i < 0 THEN DRet(d, SizeMax)
            ELSE DRet(__da_downsize([d EXCEPT !.arr = DropAt(@, i), !.length = @ - 1], al),
                      SzOf(i))

da_insert_at(d, idx, e, al) ==
    IF d = NoArray \/ e = NULL THEN DRet(d, FALSE)
    ELSE IF idx > d.length THEN DRet(d, FALSE)
    ELSE IF idx = 0 THEN da_push_front(d, e, al)
    ELSE IF idx = d.length THEN da_push(d, e, al)
    ELSE LET up == __da_upsize(d, al)
         IN IF ~up.ret THEN DRet(up.da, FALSE)
            ELSE DRet([up.da EXCEPT !.arr = SubSeq(@, 1, idx) \o <<e>> \o SubSeq(@, idx + 1, Len(@)),
                                    !.length = @ + 1], TRUE)

\* the pointer da_pop_front and da_pop return is returned as the bool
da_remove_at(d, idx, al) ==
    IF d = NoArray THEN DRet(d, FALSE)
    ELSE IF idx >= d.length THEN DRet(d, FALSE)
    ELSE IF idx = 0 THEN LET r == da_pop_front(d, al) IN DRet(r.da, r.ret # NULL)
    ELSE IF idx = d.length - 1 THEN LET r == da_pop(d, al) IN DRet(r.da, r.ret # NULL)
    ELSE DRet(__da_downsize([d EXCEPT !.arr = DropAt(@, idx), !.length = @ - 1], al), TRUE)

\* the loop of da_binary_search; oob is set when the index it is about to
\* read is not below length
RECURSIVE BinarySearchLoop(_, _, _, _, _)
BinarySearchLoop(arr, length, target, low, high) ==
    IF ~SzLeq(low, high) THEN [ret |-> SizeMax, oob |-> FALSE]
    ELSE LET mid == SzAdd(low, SzHalf(SzSub(high, low)))
         IN IF ~SzLess(mid, SzOf(length)) THEN [ret |-> mid, oob |-> TRUE]
            ELSE LET cmp_res == int_cmp(arr[SzVal(mid) + 1], target)
                 IN IF cmp_res < 0
                    THEN BinarySearchLoop(arr, length, target, SzAdd(mid, SzOf(1)), high)
                    ELSE IF cmp_res > 0
                    THEN BinarySearchLoop(arr, length, target, low, SzSub(mid, SzOf(1)))
                    ELSE [ret |-> mid, oob |-> FALSE]

da_binary_search(d, target) ==
    IF d = NoArray \/ target = NULL THEN [ret |-> SizeMax, oob |-> FALSE]
    ELSE BinarySearchLoop(d.arr, d.length, target, SzOf(0), SzSub(SzOf(d.length), SzOf(1)))

Swap(arr, i, j) == [arr EXCEPT ![i + 1] = arr[j + 1], ![j + 1] = arr[i + 1]]

\* the loop of __da_reverse; oob is set when an index it is about to swap is
\* not below length
RECURSIVE ReverseLoop(_, _, _)
ReverseLoop(arr, start, end) ==
    IF ~SzLess(start, end) THEN [arr |-> arr, oob |-> FALSE]
    ELSE IF ~SzLess(end, SzOf(Len(arr))) THEN [arr |-> arr, oob |-> TRUE]
    ELSE ReverseLoop(Swap(arr, SzVal(start), SzVal(end)),
                     SzAdd(start, SzOf(1)), SzSub(end, SzOf(1)))

__da_reverse(arr, start, end, buffer) ==
    IF SzLeq(end, start) THEN [arr |-> arr, oob |-> FALSE]
    ELSE IF ~buffer THEN [arr |-> arr, oob |-> FALSE]
    ELSE ReverseLoop(arr, start, end)

da_reverse(d, buffer) ==
    IF d = NoArray THEN [da |-> d, oob |-> FALSE]
    ELSE LET idx == SzSub(SzOf(d.length), SzOf(1))
             r == __da_reverse(d.arr, SzOf(0), idx, buffer)
         IN [da |-> [d EXCEPT !.arr = r.arr], oob |-> r.oob]

\* ------------------------------------------------------------- the state
VARIABLES hs, it, fault, last, members, mutated, visited, hb, res, da, dlast

vars == <<hs, it, fault, last, members, mutated, visited, hb, res, da, dlast>>

\* hs       the set handle of the caller (NoSet before construction)
\* it       the iterator handle of the caller (NoIter for none)
\* fault    the process has faulted on an undefined access
\* last     the last call, its argument, what it returned, and the position
\*          in its chain of the node the lookup of the call found (0: none)
\* members  the elements inserted and not since removed, retained out or cleared
\* mutated  a mutating operation was called since the iterator was created
\* visited  the keys at which the iterator was positioned, in order
\* hb       a second set handle of the caller (NoSet before construction)
\* res      the set the last call returned when it returns a new set (NoSet
\*          for NULL); the caller frees it before its next call
\* da       the dynamic array handle of the caller (NoArray before construction)
\* dlast    the last call on the dynamic array, its arguments, what it
\*          returned, and whether it made an access outside the array

Live(h) ==
    IF h = NoSet THEN {}
    ELSE UNION {{h.buckets[i][j].key : j \in {q \in 1..Len(h.buckets[i]) : h.buckets[i][q].live}} :
                i \in 0..(h.capacity - 1)}

\* a call: its name, its argument (k an element, n a capacity, p a predicate),
\* what it returned (ret a bool, got the key of hs_iter_get), the position
\* in its chain of the node its lookup found, and the handles it was given
\* when it takes sets ("A" for hs, "B" for hb)
Call(op, arg, r, at) ==
    [op  |-> op,
     k   |-> IF op \in {"insert", "remove", "contains"} THEN arg ELSE NULL,
     n   |-> IF op \in {"new", "new_with_capacity", "resize"} THEN arg
             ELSE IF op = "new_from_array" THEN U64(0, Len(arg)) ELSE U64(0, 0),
     arr |-> IF op = "new_from_array" THEN arg ELSE <<>>,
     p   |-> IF op = "retain" THEN arg ELSE {},
     ret |-> IF op = "iter_get" THEN r # NULL ELSE r,
     got |-> IF op = "iter_get" THEN r ELSE NULL,
     at  |-> at,
     x   |-> "",
     y   |-> ""]

OpCall(op, x, y, p, r) == [Call(op, NULL, r, 0) EXCEPT !.x = x, !.y = y, !.p = p]

Faulted(call, f) == IF f THEN [call EXCEPT !.op = "fault"] ELSE call

\* a call on the dynamic array: its name, its element or target e, its index,
\* length or capacity idx, the bool (ok), size_t (ret) or element (got) it
\* returned, and whether it read or wrote outside the array (oob)
DCall(op, e, idx, ok, ret, got, oob) ==
    [op |-> op, e |-> e, idx |-> idx, ok |-> ok, ret |-> ret, got |-> got, oob |-> oob]

Init ==
    /\ hs = NoSet
    /\ it = NoIter
    /\ fault = FALSE
    /\ last = Call("start", NULL, FALSE, 0)
    /\ members = {}
    /\ mutated = FALSE
    /\ visited = <<>>
    /\ hb = NoSet
    /\ res = NoSet
    /\ da = NoArray
    /\ dlast = DCall("start", NULL, 0, FALSE, SzOf(0), NULL, FALSE)

Budget == IF hs = NoSet THEN FALSE ELSE hs._mut_count < MaxMut

\* the common shape of a call on the set that returns r
SetCall(op, k, r, m) ==
    /\ res = NoSet
    /\ hs' = r.hs
    /\ fault' = r.fault
    /\ last' = Faulted(Call(op, k, r.ret,
                            IF hs = NoSet \/ op \notin {"insert", "remove", "contains"} THEN 0
                            ELSE IF k = NULL THEN 0
                            ELSE __hs_find_target_ptr(hs, k, __hs_hash(hs, k),
                                                      __hs_index(__hs_hash(hs, k), hs.capacity))),
                       r.fault)
    /\ members' = IF r.fault THEN members ELSE m
    /\ it' = it
    /\ hb' = hb
    /\ res' = NoSet
    /\ UNCHANGED <<da, dlast>>

New(seeds) ==
    /\ ~fault /\ hs = NoSet
    /\ \E a \in NewArgs, sd \in seeds, f \in {"none", "hs", "buckets"} :
          SetCall("new", U64(0, DefaultCapacity), hs_new(a[1], a[2], sd, Al(f), "wrap"), {})
    /\ UNCHANGED <<mutated, visited>>

NewWithCapacity(seeds, requests) ==
    /\ ~fault /\ hs = NoSet
    /\ \E a \in NewArgs, c \in requests, sd \in seeds, f \in {"none", "hs", "buckets"} :
          \E ub \in ShiftUB(c) :
             SetCall("new_with_capacity", c,
                     hs_new_with_capacity(a[1], a[2], c, sd, Al(f), ub), {})
    /\ UNCHANGED <<mutated, visited>>

\* the arrays of the caller, with and without repeated values
Arrays == UNION {[1..n -> Elems] : n \in 0..MaxLen}

\* the allocation that fails in a call: one of the constructor's, or one of
\* the inserts' (the bucket array of an insert is the one of its growth)
ArrayFailures == {<<"none", "none">>, <<"hs", "none">>, <<"buckets", "none">>,
                  <<"none", "kcopy">>, <<"none", "node">>, <<"none", "buckets">>}

\* a call that has returned NULL leaves the caller where it was: the calls
\* that can follow it are those that could be made in its place
NewFromArray(seeds, arrays) ==
    /\ ~fault /\ hs = NoSet
    /\ last.op # "new_from_array"
    /\ \E arr \in arrays, sd \in seeds, f \in ArrayFailures :
          LET r == hs_new_from_array(4, TRUE, arr, sd, Al(f[1]), Al(f[2]), "wrap")
          IN SetCall("new_from_array", arr, r, IF r.hs = NoSet THEN {} ELSE Range(arr))
    /\ UNCHANGED <<mutated, visited>>

\* a call with a valid set and argument invalidates the iterator's walk
Mutating(k) ==
    /\ mutated' = (mutated \/ (it # NoIter /\ hs # NoSet /\ k # NULL))
    /\ visited' = IF hs # NoSet /\ k # NULL THEN <<>> ELSE visited

Insert(keys) ==
    /\ ~fault /\ Budget
    /\ \E k \in keys \cup {NULL}, f \in {"none", "kcopy", "node", "buckets"}, uaf \in UAF(hs) :
          LET r == hs_insert(hs, k, Al(f), uaf)
              dup == k # NULL /\ hs_contains(hs, k, "read").ret
          IN /\ SetCall("insert", k, r, IF r.ret \/ dup THEN members \cup {k} ELSE members)
             /\ Mutating(k)

Remove(keys) ==
    /\ ~fault /\ Budget
    /\ \E k \in keys \cup {NULL}, uaf \in UAF(hs) :
          /\ SetCall("remove", k, hs_remove(hs, k, uaf), members \ {k})
          /\ Mutating(k)

Contains(keys) ==
    /\ ~fault /\ hs # NoSet
    /\ \E k \in keys \cup {NULL}, uaf \in UAF(hs) :
          SetCall("contains", k, hs_contains(hs, k, uaf), members)
    /\ UNCHANGED <<mutated, visited>>

Retain(predicates) ==
    /\ ~fault /\ Budget
    /\ \E p \in predicates, uaf \in UAF(hs) :
          \E g \in IF HasGarbage(hs) THEN BOOLEAN ELSE {FALSE} :
             /\ SetCall("retain", p, hs_retain(hs, p, g, uaf),
                        IF p = NoPred THEN members ELSE members \cap p)
             /\ Mutating(IF p = NoPred THEN NULL ELSE 1)

Clear(modes) ==
    /\ ~fault /\ Budget
    /\ \E m \in modes, uaf \in UAF(hs) :
          SetCall("clear", NULL, hs_clear(hs, m[1], m[2], uaf), {})
    /\ Mutating(1)

Resize(requests) ==
    /\ ~fault /\ Budget
    /\ \E n \in requests, f \in {"none", "buckets"}, uaf \in UAF(hs) :
          \E ub \in ShiftUB(n) :
             SetCall("resize", n, hs_resize(hs, n, Al(f), uaf, ub), members)
    /\ Mutating(1)

IterCreate ==
    /\ ~fault /\ it = NoIter /\ hs # NoSet
    /\ \E ok \in BOOLEAN :
          /\ it' = IF ok THEN hs_iterator(hs) ELSE NoIter
          /\ last' = Call("iterator", NULL, ok, 0)
    /\ mutated' = FALSE
    /\ visited' = <<>>
    /\ UNCHANGED <<hs, fault, members, hb, res, da, dlast>>

IterNext ==
    /\ ~fault /\ it # NoIter
    /\ \E uaf \in UAF(hs) :
          LET r == hs_iter_next(it, hs, uaf)
          IN /\ it' = r.it
             /\ fault' = r.fault
             /\ last' = Faulted(Call("iter_next", NULL, r.ret, 0), r.fault)
             /\ visited' = IF r.ret THEN Append(visited, NodeAt(hs, r.it.node).key) ELSE visited
    /\ UNCHANGED <<hs, members, mutated, hb, res, da, dlast>>

IterGet ==
    /\ ~fault /\ it # NoIter
    /\ \E uaf \in UAF(hs) :
          LET r == hs_iter_get(it, hs, uaf)
          IN /\ fault' = r.fault
             /\ last' = Faulted(Call("iter_get", NULL, r.ret, 0), r.fault)
    /\ UNCHANGED <<hs, it, members, mutated, visited, hb, res, da, dlast>>

\* the caller frees the iterator
IterFree ==
    /\ ~fault /\ it # NoIter
    /\ it' = NoIter
    /\ last' = Call("iter_free", NULL, FALSE, 0)
    /\ mutated' = FALSE
    /\ visited' = <<>>
    /\ UNCHANGED <<hs, fault, members, hb, res, da, dlast>>

Free(modes) ==
    /\ ~fault /\ hs # NoSet
    /\ \E m \in modes, uaf \in UAF(hs) :
          SetCall("free", NULL, hs_free(hs, m[1], m[2], uaf), {})
    /\ Mutating(1)

\* the second set: construction and insertion
NewB(seeds) ==
    /\ ~fault /\ hb = NoSet /\ res = NoSet
    /\ \E sd \in seeds :
          LET r == hs_new(4, TRUE, sd, Al("none"), "wrap")
          IN /\ hb' = r.hs
             /\ last' = [Call("new", U64(0, DefaultCapacity), r.ret, 0) EXCEPT !.x = "B"]
    /\ res' = NoSet
    /\ UNCHANGED <<da, dlast>>
    /\ UNCHANGED <<hs, it, fault, members, mutated, visited>>

InsertB(keys) ==
    /\ ~fault /\ hb # NoSet /\ res = NoSet /\ hb._mut_count < MaxMut - 1
    /\ \E k \in keys :
          LET r == hs_insert(hb, k, Al("none"), "read")
          IN /\ hb' = r.hs
             /\ last' = [Call("insert", k, r.ret, 0) EXCEPT !.x = "B"]
    /\ res' = NoSet
    /\ UNCHANGED <<da, dlast>>
    /\ UNCHANGED <<hs, it, fault, members, mutated, visited>>

\* the set a handle of the caller names
Operand(x) == IF x = "A" THEN hs ELSE hb
\* the two handles are the same pointer
SamePtr(x, y) == x = y \/ (Operand(x) = NoSet /\ Operand(y) = NoSet)
Pairs == {<<"A", "B">>, <<"B", "A">>, <<"A", "A">>}
UAF2(a, b) == UAF(a) \cup UAF(b)
\* where an allocation of a call that builds a set fails: nowhere, at the
\* copy of one key, or at the set
Failures(keys) == {<<"none", k>> : k \in keys \cup {NULL}} \cup {<<"hs", NULL>>}

\* The calls on const sets.  Such a call changes nothing that a later one
\* reads, so the state after two of them in a row is the state after the
\* second alone: each is taken from a state that a call of another kind left.
OnConst == {"union", "intersection", "difference", "sym_difference", "filter", "copy",
            "are_eq", "are_disjoint", "is_subset", "is_supset",
            "copy_with_capacity", "copy_metadata", "copy_metadata_with_capacity"}

\* a call that builds what it returns in its first operand
AlgCallInPlace(op, x, y, p, r) ==
    /\ last.op \notin OnConst
    /\ res' = r.hs
    /\ UNCHANGED <<da, dlast>>
    /\ hs' = IF x = "A" /\ r.hs # NoSet THEN r.hs ELSE hs
    /\ hb' = IF x = "B" /\ r.hs # NoSet THEN r.hs ELSE hb
    /\ fault' = r.fault
    /\ last' = Faulted(OpCall(op, x, y, p, r.ret), r.fault)
    /\ UNCHANGED <<it, members, mutated, visited>>

\* the common shape of a call on const sets that returns a new set
AlgCall(op, x, y, p, r) ==
    /\ last.op \notin OnConst
    /\ res' = r.hs
    /\ UNCHANGED <<da, dlast>>
    /\ fault' = r.fault
    /\ last' = Faulted(OpCall(op, x, y, p, r.ret), r.fault)
    /\ UNCHANGED <<hs, hb, it, members, mutated, visited>>

\* the common shape of a call on const sets that returns a bool
CmpCall(op, x, y, r) ==
    /\ last.op \notin OnConst
    /\ res' = NoSet
    /\ UNCHANGED <<da, dlast>>
    /\ fault' = r.fault
    /\ last' = Faulted(OpCall(op, x, y, {}, r.ret), r.fault)
    /\ UNCHANGED <<hs, hb, it, members, mutated, visited>>

Union(seeds, keys) ==
    /\ ~fault
    /\ \E xy \in Pairs, sd \in seeds, f \in Failures(keys) :
          \E uaf \in UAF2(Operand(xy[1]), Operand(xy[2])) :
             AlgCall("union", xy[1], xy[2], {},
                     hs_union(Operand(xy[1]), Operand(xy[2]), sd, Al(f[1]), f[2], uaf))

Intersection(seeds, keys) ==
    /\ ~fault
    /\ \E xy \in Pairs, sd \in seeds, f \in Failures(keys) :
          \E uaf \in UAF2(Operand(xy[1]), Operand(xy[2])) :
             AlgCall("intersection", xy[1], xy[2], {},
                     hs_intersection(Operand(xy[1]), Operand(xy[2]), sd, Al(f[1]), f[2], uaf))

Difference(seeds, keys) ==
    /\ ~fault
    /\ \E xy \in Pairs, sd \in seeds, f \in Failures(keys) :
          \E uaf \in UAF2(Operand(xy[1]), Operand(xy[2])) :
             AlgCall("difference", xy[1], xy[2], {},
                     hs_difference(Operand(xy[1]), Operand(xy[2]), sd, Al(f[1]), f[2], uaf))

SymDifference(seeds, keys) ==
    /\ ~fault
    /\ \E xy \in Pairs, sd \in seeds, f \in Failures(keys) :
          \E uaf \in UAF2(Operand(xy[1]), Operand(xy[2])) :
             AlgCall("sym_difference", xy[1], xy[2], {},
                     hs_sym_difference(Operand(xy[1]), Operand(xy[2]), sd, Al(f[1]), f[2], uaf))

Filter(seeds, keys, predicates) ==
    /\ ~fault
    /\ \E x \in {"A", "B"}, p \in predicates, sd \in seeds, f \in Failures(keys) :
          \E uaf \in UAF(Operand(x)) :
             \E g \in IF Operand(x) # NoSet /\ HasGarbage(Operand(x)) THEN BOOLEAN ELSE {FALSE} :
                AlgCall("filter", x, "", IF p = NoPred THEN {} ELSE p,
                        hs_filter(Operand(x), p, g, sd, Al(f[1]), f[2], uaf))

Copy(seeds, keys) ==
    /\ ~fault
    /\ \E x \in {"A", "B"}, sd \in seeds, f \in Failures(keys) :
          \E uaf \in UAF(Operand(x)) :
             AlgCall("copy", x, "", {},
                     Made(hs_copy(Operand(x), sd, Al(f[1]), f[2], uaf)))

\* the caller frees the set the last call returned
FreeResult ==
    /\ ~fault /\ res # NoSet
    /\ res' = hs_free(res, "stale", 0, "read").hs
    /\ UNCHANGED <<da, dlast>>
    /\ last' = OpCall("free", "R", "", {}, FALSE)
    /\ UNCHANGED <<hs, hb, it, fault, members, mutated, visited>>

AreEq ==
    /\ ~fault
    /\ \E xy \in Pairs : \E uaf \in UAF2(Operand(xy[1]), Operand(xy[2])) :
          CmpCall("are_eq", xy[1], xy[2],
                  hs_are_eq(Operand(xy[1]), Operand(xy[2]), SamePtr(xy[1], xy[2]), uaf))

AreDisjoint ==
    /\ ~fault
    /\ \E xy \in Pairs : \E uaf \in UAF2(Operand(xy[1]), Operand(xy[2])) :
          CmpCall("are_disjoint", xy[1], xy[2],
                  hs_are_disjoint(Operand(xy[1]), Operand(xy[2]), SamePtr(xy[1], xy[2]), uaf))

IsSubset ==
    /\ ~fault
    /\ \E xy \in Pairs : \E uaf \in UAF2(Operand(xy[1]), Operand(xy[2])) :
          CmpCall("is_subset", xy[1], xy[2],
                  hs_is_subset(Operand(xy[1]), Operand(xy[2]), SamePtr(xy[1], xy[2]), uaf))

IsSupset ==
    /\ ~fault
    /\ \E xy \in Pairs : \E uaf \in UAF2(Operand(xy[1]), Operand(xy[2])) :
          CmpCall("is_supset", xy[1], xy[2],
                  hs_is_supset(Operand(xy[1]), Operand(xy[2]), SamePtr(xy[1], xy[2]), uaf))

\* the common shape of a copier that is given a capacity n
CapCall(op, x, n, r) ==
    /\ last.op \notin OnConst
    /\ res' = r.hs
    /\ UNCHANGED <<da, dlast>>
    /\ fault' = r.fault
    /\ last' = Faulted([OpCall(op, x, "", {}, r.ret) EXCEPT !.n = n], r.fault)
    /\ UNCHANGED <<hs, hb, it, members, mutated, visited>>

CopyWithCapacity(seeds, keys, requests) ==
    /\ ~fault
    /\ \E sd \in seeds, c \in requests, f \in Failures(keys), uaf \in UAF(hs) :
          CapCall("copy_with_capacity", "A", c,
                  Made(hs_copy_with_capacity(hs, c, sd, Al(f[1]), f[2], uaf)))

CopyMetadata(seeds) ==
    /\ ~fault
    /\ \E sd \in seeds, f \in {"none", "hs", "buckets"} :
          AlgCall("copy_metadata", "A", "", {}, Made(hs_copy_metadata(hs, sd, Al(f))))

CopyMetadataWithCapacity(seeds, requests) ==
    /\ ~fault
    /\ \E sd \in seeds, c \in requests, f \in {"none", "hs", "buckets"} :
          CapCall("copy_metadata_with_capacity", "A", c,
                  Made(hs_copy_metadata_with_capacity(hs, c, sd, Al(f))))

\* the caller inserts into and removes from the set the last call returned
InsertR(keys) ==
    /\ ~fault /\ res # NoSet /\ res._mut_count < MaxMut - 1
    /\ \E k \in keys :
          LET r == hs_insert(res, k, Al("none"), "read")
          IN /\ res' = r.hs
             /\ last' = [Call("insert", k, r.ret, 0) EXCEPT !.x = "R"]
    /\ UNCHANGED <<hs, hb, it, fault, members, mutated, visited, da, dlast>>

RemoveR(keys) ==
    /\ ~fault /\ res # NoSet /\ res._mut_count < MaxMut - 1
    /\ \E k \in keys :
          LET r == hs_remove(res, k, "read")
          IN /\ res' = r.hs
             /\ last' = [Call("remove", k, r.ret, 0) EXCEPT !.x = "R"]
    /\ UNCHANGED <<hs, hb, it, fault, members, mutated, visited, da, dlast>>

\* the set and its operations, without iterators
Next ==
    \/ New(SeedPairs)
    \/ NewWithCapacity(SeedPairs, SmallRequests)
    \/ Insert(Elems)
    \/ Remove(Elems)
    \/ Contains(Elems)
    \/ Retain(Predicates)
    \/ Clear(FreeModes)
    \/ Resize(SmallRequests)

Spec == Init /\ [][Next]_vars

\* construction and growth over every capacity that can be asked for
NextCap ==
    \/ New(SeedPairs)
    \/ NewWithCapacity(SeedPairs, SmallRequests \cup HugeRequests)
    \/ Insert(Elems)
    \/ Remove(Elems)
    \/ Resize(SmallRequests \cup HugeRequests)

SpecCap == Init /\ [][NextCap]_vars

\* the set with an iterator of the caller on it
IterElems == 1..(MaxElem - 1)
IterPredicates == {{k \in Elems : k % 2 = 0}, NoPred}

NextIter ==
    \/ New(SeedPairs)
    \/ Insert(IterElems)
    \/ Remove(IterElems)
    \/ Retain(IterPredicates)
    \/ Clear(FreeModes)
    \/ Resize(SmallRequests)
    \/ IterCreate
    \/ IterNext
    \/ IterGet
    \/ IterFree

SpecIter == Init /\ [][NextIter]_vars

\* the whole life of a set, to its hs_free
NextFree ==
    \/ New(SeedPairs)
    \/ Insert(Elems)
    \/ Remove(Elems)
    \/ Retain(Predicates)
    \/ Clear(FreeModes)
    \/ Resize(SmallRequests)
    \/ Free(FreeModes)

SpecFree == Init /\ [][NextFree]_vars

\* a set built from an array of the caller
NextArr ==
    \/ NewFromArray(SeedPairs, Arrays)
    \/ Insert(Elems)
    \/ Remove(Elems)
    \/ Contains(Elems)
    \/ Free({<<"stale", 0>>})

SpecArr == Init /\ [][NextArr]_vars

\* two sets of the caller and the calls that build a set from them
AElems == 1..(MaxElem - 2)
BElems == (MaxElem - 2)..(MaxElem - 1)
AlgModes == {<<"stale", 0>>}
AlgPredicates == {{k \in Elems : k % 2 = 0}, NoPred}

NextAlg ==
    \/ New({<<1, 0>>})
    \/ Insert(AElems)
    \/ Clear(AlgModes)
    \/ NewB({<<0, 1>>})
    \/ InsertB(BElems)
    \/ Union({<<1, 0>>}, AElems \cap BElems)
    \/ Intersection({<<1, 0>>}, AElems \cap BElems)
    \/ Difference({<<1, 0>>}, AElems \cap BElems)
    \/ SymDifference({<<1, 0>>}, AElems \cap BElems)
    \/ Filter({<<1, 0>>}, AElems \cap BElems, AlgPredicates)
    \/ Copy({<<1, 0>>}, AElems \cap BElems)
    \/ FreeResult
    \/ AreEq
    \/ AreDisjoint
    \/ IsSubset
    \/ IsSupset

SpecAlg == Init /\ [][NextAlg]_vars

\* ------------------------------------------- the dynamic array's actions
hsVars == <<hs, it, fault, last, members, mutated, visited, hb, res>>

\* the elements of the caller, the targets it looks for, the failures of an
\* allocation
DaElems == {2, 4}
DaTargets == 1..5
DaFailures == {"none", "arr", "elem"}
\* the capacities it asks for: none, one, the least that shrinks to none, and
\* the most
DaCapacities == {0, 1, ShrinkDen, MaxDaCap}

IsSorted(arr) ==
    /\ \A i \in 1..Len(arr) : arr[i] # Junk
    /\ \A i \in 1..(Len(arr) - 1) : int_cmp(arr[i], arr[i + 1]) <= 0

\* the common shape of a call that returns a bool
DaCall(op, e, idx, r) ==
    /\ da' = r.da
    /\ dlast' = DCall(op, e, idx, r.ret, SzOf(0), NULL, FALSE)
    /\ UNCHANGED hsVars

\* the process is alive and the array within the bounds of the model
DaLive == da # NoArray /\ ~dlast.oob
Room == da.length < MaxDaLen /\ (da.length < da.capacity \/ da.capacity * GrowthFactor <= MaxDaCap)

DaNew ==
    /\ da = NoArray
    /\ \E f \in {"none", "da", "arr"} : DaCall("new", NULL, 4, da_new(4, DAl(f)))

DaNewWithCapacity ==
    /\ da = NoArray
    /\ \E c \in DaCapacities, f \in {"none", "da", "arr"} :
          DaCall("new_with_capacity", NULL, c, da_new_with_capacity(4, c, DAl(f)))

DaPush ==
    /\ DaLive /\ Room
    /\ \E e \in DaElems \cup {NULL}, f \in DaFailures :
          DaCall("push", e, 0, da_push(da, e, DAl(f)))

DaPushFront ==
    /\ DaLive /\ Room
    /\ \E e \in DaElems \cup {NULL}, f \in DaFailures :
          DaCall("push_front", e, 0, da_push_front(da, e, DAl(f)))

DaInsertAt ==
    /\ DaLive /\ Room
    /\ \E e \in DaElems \cup {NULL}, idx \in 0..MaxDaLen, f \in DaFailures :
          DaCall("insert_at", e, idx, da_insert_at(da, idx, e, DAl(f)))

DaSet ==
    /\ DaLive
    /\ \E e \in DaElems \cup {NULL}, idx \in 0..MaxDaLen :
          /\ idx < MaxDaLen \/ idx >= da.capacity
          /\ DaCall("set", e, idx, da_set(da, idx, e))

DaPop ==
    /\ DaLive
    /\ \E f \in DaFailures :
          LET r == da_pop(da, DAl(f))
          IN /\ da' = r.da
             /\ dlast' = DCall("pop", NULL, 0, r.ret # NULL, SzOf(0), r.ret, FALSE)
    /\ UNCHANGED hsVars

DaPopFront ==
    /\ DaLive
    /\ \E f \in DaFailures :
          LET r == da_pop_front(da, DAl(f))
          IN /\ da' = r.da
             /\ dlast' = DCall("pop_front", NULL, 0, r.ret # NULL, SzOf(0), r.ret, FALSE)
    /\ UNCHANGED hsVars

DaRemove ==
    /\ DaLive
    /\ \E t \in DaElems \cup {NULL}, junkEq \in BOOLEAN, f \in DaFailures :
          LET r == da_remove(da, t, junkEq, DAl(f))
          IN /\ da' = r.da
             /\ dlast' = DCall("remove", t, 0, r.ret # SizeMax, r.ret, NULL, FALSE)
    /\ UNCHANGED hsVars

DaRemoveAt ==
    /\ DaLive
    /\ \E idx \in 0..MaxDaLen, f \in DaFailures :
          DaCall("remove_at", NULL, idx, da_remove_at(da, idx, DAl(f)))

DaTruncate ==
    /\ DaLive
    /\ \E n \in 0..MaxDaLen : DaCall("truncate", NULL, n, da_truncate(da, n))

DaResize ==
    /\ DaLive
    /\ \E c \in DaCapacities, f \in DaFailures :
          DaCall("resize", NULL, c, da_resize(da, c, DAl(f)))

DaReserve ==
    /\ DaLive
    /\ \E c \in DaCapacities, f \in DaFailures :
          DaCall("reserve", NULL, c, da_reserve(da, c, DAl(f)))

DaShrink ==
    /\ DaLive
    /\ \E f \in DaFailures : DaCall("shrink", NULL, 0, da_shrink(da, DAl(f)))

DaReverse ==
    /\ DaLive
    /\ \E buffer \in BOOLEAN :
          LET r == da_reverse(da, buffer)
          IN /\ da' = r.da
             /\ dlast' = DCall("reverse", NULL, 0, buffer, SzOf(0), NULL, r.oob)
    /\ UNCHANGED hsVars

\* the caller searches an array it has kept sorted
DaBinarySearch ==
    /\ DaLive /\ IsSorted(da.arr)
    /\ \E t \in DaTargets :
          LET r == da_binary_search(da, t)
          IN /\ da' = da
             /\ dlast' = DCall("binary_search", t, 0, r.ret # SizeMax, r.ret, NULL, r.oob)
    /\ UNCHANGED hsVars

NextDa ==
    \/ DaNew
    \/ DaNewWithCapacity
    \/ DaPush
    \/ DaPushFront
    \/ DaInsertAt
    \/ DaSet
    \/ DaPop
    \/ DaPopFront
    \/ DaRemove
    \/ DaRemoveAt
    \/ DaTruncate
    \/ DaResize
    \/ DaReserve
    \/ DaShrink
    \/ DaReverse
    \/ DaBinarySearch

SpecDa == Init /\ [][NextDa]_vars

\* a set, its copies, and the caller's changes to a copy
CopyElems == 1..(MaxElem - 2)

NextCopy ==
    \/ New(SeedPairs)
    \/ Insert(CopyElems)
    \/ Clear(AlgModes)
    \/ Copy({<<1, 0>>}, {})
    \/ CopyWithCapacity({<<1, 0>>}, {}, SmallRequests)
    \/ CopyMetadata({<<1, 0>>})
    \/ CopyMetadataWithCapacity({<<1, 0>>}, SmallRequests)
    \/ InsertR(CopyElems)
    \/ RemoveR(CopyElems)
    \/ FreeResult

SpecCopy == Init /\ [][NextCopy]_vars

\* ------------------------------------------------------------ the claims
\* the elements hs_contains finds
Findable(h) == {e \in Elems : hs_contains(h, e, "read").ret}

IsPow2(n) == \E s \in 0..(IntBits - 2) : n = Pow2(s)

AllNodes(h) == Flatten(h.buckets, 0, h.capacity)

\* C1: an element that hs_insert has accepted (or refused as a duplicate) is
\* found by hs_contains after the call and after every later insert, remove
\* of another element and resize, automatic or manual, until it is removed,
\* retained out or cleared.
InsertedStaysFound ==
    (hs # NoSet /\ ~fault) =>
        \A e \in members : \A uaf \in UAF(hs) :
            LET r == hs_contains(hs, e, uaf) IN ~r.fault /\ r.ret = TRUE

\* C2: hs_remove of an element that is found returns true, lowers count by
\* exactly one, leaves every other element found, and afterwards the element
\* is not found and a second hs_remove of it returns false, wherever the node
\* sits in its chain.
RemoveRoundTrip ==
    (hs # NoSet /\ ~fault) =>
        \A e \in members : \A uaf \in UAF(hs) :
            LET r == hs_remove(hs, e, uaf)
            IN /\ ~r.fault
               /\ r.ret = TRUE
               /\ r.hs.count = hs.count - 1
               /\ \A o \in members \ {e} : hs_contains(r.hs, o, "read").ret = TRUE
               /\ hs_contains(r.hs, e, "read").ret = FALSE
               /\ hs_remove(r.hs, e, "read").ret = FALSE

\* C3: hs_insert of an element equal to one in the set returns false and
\* leaves count unchanged, and no two nodes of the set hold equal elements.
NoDuplicates ==
    (hs # NoSet /\ ~fault) =>
        /\ \A e \in members : \A f \in {"none", "kcopy", "node", "buckets"} :
              \A uaf \in UAF(hs) :
                 LET r == hs_insert(hs, e, Al(f), uaf)
                 IN ~r.fault /\ r.ret = FALSE /\ r.hs.count = hs.count
        /\ LET nodes == AllNodes(hs)
           IN \A i \in 1..Len(nodes) : \A j \in 1..Len(nodes) :
                 (i # j /\ nodes[i].live /\ nodes[j].live)
                     => cmp(nodes[i].key, nodes[j].key) # 0

\* C4: after every hs_insert that returns true, count / capacity <= load_factor.
LoadFactorAfterInsert ==
    (hs # NoSet /\ ~fault /\ last.op = "insert" /\ last.ret = TRUE) =>
        LoadFactorDen * hs.count <= LoadFactorNum * hs.capacity

\* C5: a resize, manual or the automatic growth inside hs_insert, changes
\* neither count nor the elements that hs_contains finds.
ResizeKeepsMembers ==
    (hs # NoSet /\ ~fault) =>
        /\ \A n \in SmallRequests : \A f \in {"none", "buckets"} : \A uaf \in UAF(hs) :
              LET r == hs_resize(hs, n, Al(f), uaf, "wrap")
              IN /\ ~r.fault
                 /\ r.hs.count = hs.count
                 /\ Findable(r.hs) = Findable(hs)
        /\ \A k \in Elems \ Findable(hs) : \A uaf \in UAF(hs) :
              LET r == hs_insert(hs, k, Al("none"), uaf)
              IN /\ ~r.fault
                 /\ (r.ret /\ r.hs.capacity # hs.capacity) =>
                        /\ r.hs.count = hs.count + 1
                        /\ Findable(r.hs) = Findable(hs) \cup {k}

\* C6: in every reachable state the capacity of a set is a power of two and
\* at least 4.
CapacityPow2AtLeast4 ==
    hs # NoSet => (IsPow2(hs.capacity) /\ hs.capacity >= MinCapacity)

\* C7: hs_new_with_capacity with a complete policy yields a set whose capacity
\* is the smallest power of two >= max(c, 4), with count 0 and empty buckets.
NewRoundsUp ==
    (last.op = "new_with_capacity" /\ last.ret = TRUE) =>
        /\ IsPow2(hs.capacity)
        /\ hs.capacity >= MinCapacity
        /\ hs.capacity >= Sat(last.n)
        /\ (hs.capacity = MinCapacity \/ hs.capacity \div 2 < Sat(last.n))
        /\ hs.count = 0
        /\ \A i \in 0..(hs.capacity - 1) : hs.buckets[i] = <<>>

\* C8: once a mutating operation has been called on the set of an iterator,
\* every hs_iter_next on the iterator returns false and every hs_iter_get
\* returns NULL, whatever follows and wherever the iterator stood.
StaleIteratorFailsClosed ==
    (it # NoIter /\ mutated /\ ~fault) =>
        /\ \A uaf \in UAF(hs) :
              /\ hs_iter_next(it, hs, uaf) = [it |-> it, ret |-> FALSE, fault |-> FALSE]
              /\ hs_iter_get(it, hs, uaf) = [ret |-> NULL, fault |-> FALSE]
        /\ last.op = "iter_next" => last.ret = FALSE
        /\ last.op = "iter_get" => last.got = NULL

\* an iterator that stood on a node was advanced after two mutating calls
StaleIteratorFailsClosedWitness ==
    /\ it # NoIter /\ mutated /\ ~fault
    /\ it.node # NoNode
    /\ last.op = "iter_next"
    /\ hs._mut_count >= it.mutations + 2

\* C9: on a set not mutated since the iterator was created, when hs_iter_next
\* first returns false it has returned true exactly count times, the elements
\* visited are the live elements, each once, and it goes on returning false.
WalkVisitsLive ==
    (it # NoIter /\ ~mutated /\ ~fault /\ last.op = "iter_next" /\ last.ret = FALSE) =>
        /\ Len(visited) = hs.count
        /\ Range(visited) = Live(hs)
        /\ Cardinality(Range(visited)) = Len(visited)
        /\ hs_iter_next(it, hs, "read").ret = FALSE

\* C10: hs_clear leaves a valid empty set: count 0, every bucket empty and no
\* element found, the capacity being unchanged.
ClearEmpties ==
    (hs # NoSet /\ ~fault /\ last.op = "clear") =>
        /\ hs.count = 0
        /\ \A i \in 0..(hs.capacity - 1) : hs.buckets[i] = <<>>
        /\ Findable(hs) = {}

\* the number of nodes of h that a call has already released
Freed(h) == IF h = NoSet THEN 0 ELSE Len(SelectSeq(Walk(h), LAMBDA n : ~n.live))

\* C11: over the life of a set that ends in hs_free, with hs_clear, hs_remove
\* and hs_retain before it, every node and its element copy is released
\* exactly once: hs_clear and hs_free, which release every node in the chains,
\* find none that is released already, and hs_remove and hs_retain release
\* none a second time.
FreedExactlyOnce ==
    [][/\ last'.op \in {"clear", "free"} => Freed(hs) = 0
       /\ last'.op \in {"remove", "retain"} => Freed(hs') >= Freed(hs)]_vars

\* the elements a set of the caller contains: those inserted and not since
\* removed, retained out or cleared
ElemsOf(x) == IF x = "A" THEN (IF hs = NoSet THEN {} ELSE members) ELSE Live(hb)

\* the last call was op on two non-null sets and returned a set
Returned(op) ==
    /\ last.op = op
    /\ Operand(last.x) # NoSet /\ Operand(last.y) # NoSet
    /\ res # NoSet

\* the set res holds exactly the elements of S
Holds(S) == Findable(res) = S /\ Live(res) = S /\ hs_count(res) = Cardinality(S)

\* C12: the set hs_union(A, B) returns for non-null A and B holds exactly the
\* elements contained in A or in B, and its count is the number of them,
\* whichever operand is the larger.
UnionExact ==
    Returned("union") => Holds(ElemsOf(last.x) \cup ElemsOf(last.y))

\* C13: the set hs_intersection(A, B) returns for non-null A and B holds
\* exactly the elements contained in both, and hs_are_eq finds it equal to
\* the set hs_intersection(B, A) returns.
IntersectionExact ==
    Returned("intersection") =>
        /\ Holds(ElemsOf(last.x) \cap ElemsOf(last.y))
        /\ \A sd \in SeedPairs :
              LET ba == hs_intersection(Operand(last.y), Operand(last.x), sd,
                                        Al("none"), NULL, "read")
              IN ba.hs # NoSet =>
                    LET eq == hs_are_eq(res, ba.hs, FALSE, "read")
                    IN ~eq.fault /\ eq.ret

\* C14: the set hs_difference(A, B) returns for non-null A and B holds
\* exactly the elements of A that B does not contain, and hs_difference(A, A)
\* is empty with count 0.
DifferenceExact ==
    Returned("difference") =>
        /\ Holds(ElemsOf(last.x) \ ElemsOf(last.y))
        /\ last.x = last.y => hs_count(res) = 0 /\ Findable(res) = {}

\* C15: the set hs_sym_difference(A, B) returns for non-null A and B holds
\* exactly the elements contained in exactly one of them, and its count is
\* hs_count(A) + hs_count(B) - 2 * hs_count(hs_intersection(A, B)).
SymDifferenceExact ==
    Returned("sym_difference") =>
        /\ Holds((ElemsOf(last.x) \cup ElemsOf(last.y)) \ (ElemsOf(last.x) \cap ElemsOf(last.y)))
        /\ \A sd \in SeedPairs :
              LET ab == hs_intersection(Operand(last.x), Operand(last.y), sd,
                                        Al("none"), NULL, "read")
              IN ab.hs # NoSet =>
                    hs_count(res) = hs_count(Operand(last.x)) + hs_count(Operand(last.y))
                                        - 2 * hs_count(ab.hs)

\* what the next hs_iter_next of an iterator made on h before a call answers
\* on the set h1 the call has left
NextOf(h, h1) == IF h = NoSet \/ h1 = NoSet THEN h = h1
                 ELSE hs_iter_next(hs_iterator(h), h1, "read")

Apply(op, a, b, seeds, al, fk, uaf) ==
    IF op = "union" THEN hs_union(a, b, seeds, al, fk, uaf)
    ELSE IF op = "intersection" THEN hs_intersection(a, b, seeds, al, fk, uaf)
    ELSE IF op = "difference" THEN hs_difference(a, b, seeds, al, fk, uaf)
    ELSE hs_sym_difference(a, b, seeds, al, fk, uaf)

\* what the operation is on two sets of elements
Algebra(op, S, T) ==
    IF op = "union" THEN S \cup T
    ELSE IF op = "intersection" THEN S \cap T
    ELSE IF op = "difference" THEN S \ T
    ELSE (S \cup T) \ (S \cap T)

\* C17: hs_union, hs_intersection, hs_difference and hs_sym_difference take
\* a NULL operand for the empty set: with one operand or both NULL, and no
\* allocation failing, the call returns a set, and the set it returns holds
\* what the operation gives with the empty set in the place of NULL (an empty
\* set when both are NULL).
NullIsEmptySet ==
    (/\ last.op \in {"union", "intersection", "difference", "sym_difference"}
     /\ (Operand(last.x) = NoSet \/ Operand(last.y) = NoSet)) =>
        /\ res # NoSet => Holds(Algebra(last.op, ElemsOf(last.x), ElemsOf(last.y)))
        /\ \A sd \in SeedPairs : \A uaf \in UAF2(Operand(last.x), Operand(last.y)) :
              LET r == Apply(last.op, Operand(last.x), Operand(last.y), sd,
                             Al("none"), NULL, uaf)
              IN ~r.fault /\ r.hs # NoSet

\* C18: hs_is_subset takes a NULL operand for the empty set: hs_is_subset(NULL,
\* B) returns true for every non-null B, hs_is_subset(A, NULL) returns true
\* exactly when A is empty, and neither call faults.
SubsetOfNull ==
    \A xy \in Pairs : \A uaf \in UAF2(Operand(xy[1]), Operand(xy[2])) :
        LET a == Operand(xy[1])
            b == Operand(xy[2])
            r == hs_is_subset(a, b, SamePtr(xy[1], xy[2]), uaf)
        IN /\ (a = NoSet /\ b # NoSet) => (~r.fault /\ r.ret)
           /\ (a # NoSet /\ b = NoSet) => (~r.fault /\ (r.ret <=> ElemsOf(xy[1]) = {}))

\* C19: for non-null A and B hs_are_eq(A, B) is true exactly when A and B
\* contain the same elements, whatever their capacities, seeds and histories;
\* a set is equal to the copy hs_copy has returned of it, and is not once an
\* element it does not contain is inserted into the copy.
EqIffSameElements ==
    /\ \A xy \in Pairs : \A uaf \in UAF2(Operand(xy[1]), Operand(xy[2])) :
          LET a == Operand(xy[1])
              b == Operand(xy[2])
              r == hs_are_eq(a, b, SamePtr(xy[1], xy[2]), uaf)
          IN (a # NoSet /\ b # NoSet) =>
                (~r.fault /\ (r.ret <=> ElemsOf(xy[1]) = ElemsOf(xy[2])))
    /\ (last.op = "copy" /\ res # NoSet) =>
          \A uaf \in UAF(Operand(last.x)) :
             LET eq == hs_are_eq(Operand(last.x), res, FALSE, uaf)
             IN /\ ~eq.fault /\ eq.ret
                /\ \A k \in Elems \ ElemsOf(last.x) :
                      LET more == hs_insert(res, k, Al("none"), "read")
                          ne == hs_are_eq(Operand(last.x), more.hs, FALSE, uaf)
                      IN more.ret /\ ~ne.fault /\ ~ne.ret

\* C20: for non-null A and B hs_is_subset(A, B) is true exactly when B
\* contains every element of A, and hs_is_supset(A, B) answers what
\* hs_is_subset(B, A) answers.
SubsetIffContained ==
    \A xy \in Pairs : \A uaf \in UAF2(Operand(xy[1]), Operand(xy[2])) :
        LET a == Operand(xy[1])
            b == Operand(xy[2])
            same == SamePtr(xy[1], xy[2])
            r == hs_is_subset(a, b, same, uaf)
        IN (a # NoSet /\ b # NoSet) =>
              /\ ~r.fault /\ (r.ret <=> ElemsOf(xy[1]) \subseteq ElemsOf(xy[2]))
              /\ hs_is_supset(a, b, same, uaf) = hs_is_subset(b, a, same, uaf)

\* C21: hs_are_disjoint(A, B) is true exactly when no element is contained
\* in both A and B; it answers the same with its arguments exchanged, two
\* empty or NULL sets are disjoint, and a set that is not empty is not
\* disjoint from itself.
DisjointIffNoCommon ==
    \A xy \in Pairs : \A uaf \in UAF2(Operand(xy[1]), Operand(xy[2])) :
        LET a == Operand(xy[1])
            b == Operand(xy[2])
            same == SamePtr(xy[1], xy[2])
            r == hs_are_disjoint(a, b, same, uaf)
            back == hs_are_disjoint(b, a, same, uaf)
        IN /\ ~r.fault
           /\ r.ret <=> (ElemsOf(xy[1]) \cap ElemsOf(xy[2]) = {})
           /\ back = r

\* C22: hs_insert of an element equal to one in the set returns false and
\* leaves the set as it was (elements, count, capacity, bucket layout,
\* collision counter, mutation counter), so that an iterator made before the
\* call advances after it as before.
DuplicateInsertNoChange ==
    [][(last'.op = "insert" /\ hs # NoSet /\ last'.k \in Live(hs)) =>
          /\ last'.ret = FALSE
          /\ hs' = hs
          /\ NextOf(hs, hs') = NextOf(hs, hs)]_vars

\* C23: hs_remove of a key that is not in the set returns false and leaves
\* the set as it was (elements, count, capacity, bucket layout, mutation
\* counter), so that an iterator made before the call advances after it as
\* before.
MissingRemoveNoChange ==
    [][(last'.op = "remove" /\ hs # NoSet /\ last'.k # NULL /\ last'.k \notin Findable(hs)) =>
          /\ last'.ret = FALSE
          /\ hs' = hs
          /\ NextOf(hs, hs') = NextOf(hs, hs)]_vars

\* C24: hs_contains changes no field of the set, the mutation counter
\* included, whatever the set and the key: an iterator made before the call
\* advances after it as before.
ContainsIsPure ==
    [][last'.op = "contains" =>
          /\ hs' = hs
          /\ NextOf(hs, hs') = NextOf(hs, hs)]_vars

\* hs_contains has found an element of a set of several
ContainsIsPureWitness ==
    /\ last.op = "contains" /\ last.ret /\ last.k \in Live(hs)
    /\ hs_count(hs) > 1

\* C25: after hs_retain(hs, p) the set contains exactly the elements it
\* contained for which p is true, count is their number, capacity is as it
\* was, and every node taken out was released once (none that was released
\* already), wherever the kept and the removed nodes sit in their chains.
RetainKeepsExactly ==
    [][(last'.op = "retain" /\ hs # NoSet /\ last'.p # NoPred) =>
          /\ Findable(hs') = members \cap last'.p
          /\ Live(hs') = members \cap last'.p
          /\ hs_count(hs') = Cardinality(members \cap last'.p)
          /\ Len(AllNodes(hs')) = hs_count(hs')
          /\ hs'.capacity = hs.capacity
          /\ Freed(hs) = 0]_vars

\* C26: hs_resize(hs, n) with n at most the capacity reports failure and
\* leaves capacity and contents as they were; with n above the capacity a
\* resize that takes place brings the capacity to the smallest power of two
\* that is at least n and keeps the contents.
ResizeRejectsNoGrowth ==
    [][(last'.op = "resize" /\ hs # NoSet) =>
          IF Sat(last'.n) <= hs.capacity
          THEN /\ last'.ret = FALSE
               /\ hs'.capacity = hs.capacity
               /\ hs'.buckets = hs.buckets /\ hs'.count = hs.count
          ELSE IF last'.ret
               THEN /\ IsPow2(hs'.capacity)
                    /\ hs'.capacity >= Sat(last'.n)
                    /\ hs'.capacity \div 2 < Sat(last'.n)
                    /\ Findable(hs') = Findable(hs) /\ hs'.count = hs.count
               ELSE hs'.capacity = hs.capacity /\ hs'.buckets = hs.buckets]_vars

\* C27: hs_resize(hs, n) on a non-null set returns true when it has resized
\* and when n is below the capacity, and false only when an allocation fails:
\* with every allocation succeeding it returns true for every n, n equal to
\* the capacity included.
ResizeFalseOnlyOnFailure ==
    hs # NoSet =>
        \A n \in SmallRequests \cup {U64(0, hs.capacity)} :
            LET r == hs_resize(hs, n, Al("none"), "read", "wrap")
            IN Sat(n) <= MaxCapacity => r.ret = TRUE

\* C28: hs_new and hs_new_with_capacity return NULL, create no set and keep
\* no block allocated when element_size is 0, when the policy lacks one of its
\* four callbacks, or when the allocation of the set or of its bucket array
\* fails.
BadNew(a, f) == a[1] = 0 \/ ~a[2] \/ f \in {"hs", "buckets"}

NewRejects ==
    [][last'.op \in {"new", "new_with_capacity"} =>
          /\ last'.ret = FALSE <=> hs' = NoSet
          /\ \A a \in NewArgs, sd \in SeedPairs, f \in {"none", "hs", "buckets"} :
                BadNew(a, f) =>
                   /\ hs_new_with_capacity(a[1], a[2], last'.n, sd, Al(f), "wrap")
                         = Ret(NoSet, FALSE)
                   /\ hs_new(a[1], a[2], sd, Al(f), "wrap") = Ret(NoSet, FALSE)
                   /\ Allocated(a[1], a[2], Al(f)) = {}]_vars

NewRejectsWitness ==
    /\ last.op \in {"new", "new_with_capacity"}
    /\ last.ret = FALSE
    /\ hs = NoSet
    /\ ~fault

\* C29: when an allocation that hs_insert attempts fails (the storage of the
\* element's copy, the node, or the bucket array of the automatic growth)
\* hs_insert returns false and the set keeps its elements, count, capacity and
\* chains; hs_insert never returns true after a failed allocation.
Attempts(h, k, f, uaf) ==
    /\ h # NoSet /\ k # NULL
    /\ LET h1 == [h EXCEPT !._mut_count = @ + 1]
           hash == __hs_hash(h1, k)
           index == __hs_index(hash, h1.capacity)
       IN /\ ~FindFaults(h1, k, hash, index, uaf)
          /\ ~__hs_contains(h1, k, hash, index)
    /\ f = "buckets" => /\ LoadFactorDen * (h.count + 1) > LoadFactorNum * h.capacity
                        /\ h.capacity * 2 > h.capacity

InsertReportsFailure ==
    \A k \in Elems, f \in {"kcopy", "node", "buckets"}, uaf \in UAF(hs) :
       Attempts(hs, k, f, uaf) =>
          LET r == hs_insert(hs, k, Al(f), uaf)
          IN /\ ~r.fault
             /\ r.ret = FALSE
             /\ r.hs.buckets = hs.buckets
             /\ r.hs.count = hs.count
             /\ r.hs.capacity = hs.capacity

\* C30: for every array, with or without repeated values, and a complete
\* policy hs_new_from_array returns, no allocation failing, a non-null set
\* that holds exactly the distinct values of the array, its count the number
\* of distinct values.
FromArrayDistinct ==
    [][last'.op = "new_from_array" =>
          \A sd \in SeedPairs :
             LET r == hs_new_from_array(4, TRUE, last'.arr, sd, Al("none"), Al("none"), "wrap")
             IN /\ r.hs # NoSet
                /\ Live(r.hs) = Range(last'.arr)
                /\ Findable(r.hs) = Range(last'.arr)
                /\ hs_count(r.hs) = Cardinality(Range(last'.arr))
                /\ Len(AllNodes(r.hs)) = hs_count(r.hs)]_vars

\* C31: the set hs_copy_metadata, hs_copy_metadata_with_capacity, hs_copy or
\* hs_copy_with_capacity returns carries the metadata of its source: the same
\* element size and policy and the same two seeds; the set of the two
\* metadata copiers is empty.
Copiers == {"copy", "copy_with_capacity", "copy_metadata", "copy_metadata_with_capacity"}

CopyCarriesMetadata ==
    [][(last'.op \in Copiers /\ res' # NoSet) =>
          /\ Operand(last'.x) # NoSet
          /\ res'.element_size = Operand(last'.x).element_size
          /\ res'.seed_0 = Operand(last'.x).seed_0
          /\ res'.seed_1 = Operand(last'.x).seed_1
          /\ last'.op \in {"copy_metadata", "copy_metadata_with_capacity"} =>
                /\ hs_count(res') = 0
                /\ AllNodes(res') = <<>>]_vars

\* C32: for a non-null set S, hs_copy(S) and hs_copy_with_capacity(S, c)
\* return a set with the count and exactly the elements of S, hs_are_eq,
\* hs_is_subset and hs_is_supset all true of S and the copy; inserts and
\* removes on the copy afterwards leave S as it was.
CopyOf(op, h, n, sd, uaf) ==
    IF op = "copy" THEN hs_copy(h, sd, Al("none"), NULL, uaf)
    ELSE hs_copy_with_capacity(h, n, sd, Al("none"), NULL, uaf)

CopyIsEqual ==
    [][/\ (last'.op \in {"copy", "copy_with_capacity", "fault"} /\ last'.x = "A" /\ hs # NoSet) =>
             \A op \in {"copy", "copy_with_capacity"}, sd \in SeedPairs, uaf \in UAF(hs) :
                LET r == CopyOf(op, hs, last'.n, sd, uaf)
                IN /\ ~r.fault
                   /\ r.hs # NoSet
                   /\ hs_count(r.hs) = hs_count(hs)
                   /\ Live(r.hs) = members
                   /\ Findable(r.hs) = Findable(hs)
                   /\ hs_are_eq(hs, r.hs, FALSE, uaf) = Answer(TRUE)
                   /\ hs_is_subset(hs, r.hs, FALSE, uaf) = Answer(TRUE)
                   /\ hs_is_supset(hs, r.hs, FALSE, uaf) = Answer(TRUE)
       /\ (last'.op \in {"insert", "remove"} /\ last'.x = "R") =>
             /\ hs' = hs
             /\ NextOf(hs, hs') = NextOf(hs, hs)]_vars

\* C33: over every sequence of operations on one set its capacity never
\* decreases: hs_remove, hs_retain and hs_clear leave it as it is, hs_insert
\* and hs_resize leave it equal or larger.
CapacityNeverDecreases ==
    [][(hs # NoSet /\ hs' # NoSet) =>
          /\ hs'.capacity >= hs.capacity
          /\ last'.op \in {"remove", "retain", "clear", "contains"} =>
                hs'.capacity = hs.capacity]_vars

\* a set above the least capacity that a remove has emptied
CapacityNeverDecreasesWitness ==
    /\ hs # NoSet /\ ~fault
    /\ last.op = "remove" /\ last.ret
    /\ hs.capacity > MinCapacity
    /\ Live(hs) = {}

\* C34: on an array sorted by cmp da_binary_search returns the index of an
\* element equal to the target when there is one and (size_t)-1 when there is
\* none, for every length from 0 and every target, one below all elements
\* included, and reads no index that is not below length.
BinarySearchFinds ==
    dlast.op = "binary_search" =>
       /\ ~dlast.oob
       /\ IF \E i \in 1..da.length : int_cmp(da.arr[i], dlast.e) = 0
          THEN /\ SzIsSmall(dlast.ret)
               /\ SzVal(dlast.ret) < da.length
               /\ int_cmp(da.arr[SzVal(dlast.ret) + 1], dlast.e) = 0
          ELSE dlast.ret = SizeMax

\* C35: da_reverse reverses the elements in place for every length n from 0:
\* the element at index i is afterwards the one that was at index n - 1 - i,
\* length and capacity are unchanged, and no index that is not below n is
\* read or written.
ReverseReverses ==
    [][dlast'.op = "reverse" =>
          /\ ~dlast'.oob
          /\ da'.length = da.length
          /\ da'.capacity = da.capacity
          /\ Len(da'.arr) = da.length
          /\ \A i \in 0..(da.length - 1) : da'.arr[i + 1] = da.arr[da.length - i]]_vars

\* C36: with growth factor 2.0 and shrink factor 0.2, 0 <= length <= capacity
\* holds after every sequence of da_push, da_push_front, da_pop,
\* da_pop_front, da_insert_at, da_remove, da_remove_at, da_set, da_truncate,
\* da_resize, da_reserve and da_shrink, those that shrink the capacity to 0 or
\* 1 and push again included.
LengthWithinCapacity ==
    da # NoArray =>
       /\ 0 <= da.length
       /\ da.length <= da.capacity
       /\ Len(da.arr) = da.length

\* a pop has shrunk the array to capacity 0
LengthWithinCapacityWitness ==
    /\ da # NoArray
    /\ dlast.op \in {"pop", "pop_front"} /\ dlast.got # NULL
    /\ da.capacity = 0

\* C37: in every state, after inserts, removes, retains and every resize, the
\* hash cached in each node is the policy hash of the node's element under
\* the seeds of the set, and the node is linked in bucket
\* hash & (capacity - 1).
CachedHashPlacesNode ==
    hs # NoSet =>
       \A i \in 0..(hs.capacity - 1) : \A j \in 1..Len(hs.buckets[i]) :
          /\ hs.buckets[i][j].hash = __hs_hash(hs, hs.buckets[i][j].key)
          /\ __hs_index(hs.buckets[i][j].hash, hs.capacity) = i

\* C38: hs_insert grows the table exactly when the element it has linked
\* makes count / capacity exceed the load factor, and the capacity is then
\* exactly twice what it was when the call returns; every other insert leaves
\* the capacity alone, and the elements found before and the one inserted
\* are found afterwards (capacity 4: three inserts leave 4, the fourth 8).
InsertDoublesWhenOverLoad ==
    [][(hs # NoSet /\ last'.op = "insert" /\ ~fault') =>
          /\ hs'.capacity =
                IF last'.ret /\ LoadFactorDen * hs'.count > LoadFactorNum * hs.capacity
                THEN 2 * hs.capacity
                ELSE hs.capacity
          /\ last'.ret => (Findable(hs) \cup {last'.k}) \subseteq Findable(hs')]_vars

\* the keys of the nodes hs_iter_next steps through, and whether a stands
\* before b in one chain
WalkKeys(h) == [j \in 1..Len(Walk(h)) |-> Walk(h)[j].key]
Before(h, a, b) ==
    \E i \in 0..(h.capacity - 1) : \E p, q \in 1..Len(h.buckets[i]) :
       p < q /\ h.buckets[i][p].key = a /\ h.buckets[i][q].key = b

\* C39: an iteration of a set that is not mutated meanwhile visits the
\* elements bucket by bucket in index order and each chain from its head,
\* and in every state a chain holds its elements most recently inserted
\* first: an element stands before another in a chain only if it has just
\* been inserted or stood before it already, a resize included.
IterationOrder ==
    [][/\ (it' # NoIter /\ ~mutated' /\ ~fault' /\ hs' # NoSet) =>
             /\ Len(visited') <= Len(Walk(hs'))
             /\ visited' = SubSeq(WalkKeys(hs'), 1, Len(visited'))
       /\ (hs # NoSet /\ hs' # NoSet /\ ~fault') =>
             \A a, b \in Elems :
                Before(hs', a, b) =>
                   \/ Before(hs, a, b)
                   \/ last'.op = "insert" /\ last'.ret /\ last'.k = a]_vars

\* C40: in every state of a set, after any sequence of insert, remove,
\* retain, clear and resize, count is the number of nodes reachable from the
\* bucket heads, and every node reachable from a bucket head is live.
CountIsLiveNodes ==
    (hs # NoSet /\ ~fault) =>
       /\ hs.count = Len(Walk(hs))
       /\ \A j \in 1..Len(Walk(hs)) : Walk(hs)[j].live

====
